---- MODULE Spec2Model ----
(***************************************************************************)
(* Queue abstraction layer of MessageQueue-NestJS: the SQS adapter, the    *)
(* RabbitMQ adapter, the in-memory mock adapter and the composite adapter  *)
(* that fans one operation out to the SQS and RabbitMQ adapters.           *)
(*                                                                         *)
(* A JavaScript promise is a record with a status idle / pending /         *)
(* fulfilled / rejected.  The synchronous prefix of an async method (up to *)
(* its first await) is one atomic step; the completion of the awaited      *)
(* backend request is a second step, taken by the backend.  A string that  *)
(* the code builds from parts (a message id) is a sequence of tokens, so   *)
(* that join and split are computed, not assumed.                          *)
(***************************************************************************)
EXTENDS Integers, Sequences, FiniteSets, TLC

\* ---------------------------------------------------------------- bounds
\* Number of client calls explored in one behaviour.
MaxCalls == 3
\* Number of publish calls among them (bounds the id counters and queues).
MaxMsgs == 2
\* Largest explicit maxNumberOfMessages a caller passes (0 stands for "not given").
MaxN == 1
\* Longest delaySeconds a publish asks for.
MaxDelay == 2

\* ------------------------------------------------------ program constants
\* `options?.maxNumberOfMessages || 10`
DefaultMaxMessages == 10

VARIABLES
    queueProvider,     \* the QUEUE_PROVIDER setting of the process, or Unset
    provider,          \* QueueModuleOptions.provider, read once at startup
    sqsClient,         \* SqsQueueService.sqsClient is defined
    sqsDestroyed,      \* sqsClient.destroy() has been called
    isPolling,         \* SqsQueueService.isPolling
    sqsVisible,        \* SQS queue: messages a receive can return
    sqsInFlight,       \* SQS queue: messages received and not deleted
    sqsCount,          \* messages the SQS queue has accepted (numbers its ids)
    rmqChannel,        \* RabbitMqQueueService.channelWrapper is defined
    rmqLink,           \* broker connection: "down", "up" or "closed"
    isConnected,       \* RabbitMqQueueService.isConnected
    rmqConsuming,      \* a consumer is registered on the channel
    rmqReady,          \* RabbitMQ queue: messages ready for delivery
    rmqUnacked,        \* RabbitMQ queue: messages delivered and not acknowledged
    rmqCount,          \* ids generated by generateMessageId (numbers them)
    messages,          \* MockQueueService.messages
    messageIdCounter,  \* MockQueueService.messageIdCounter
    sqsOp,             \* promise of the SQS adapter's method in progress
    rmqOp,             \* promise of the RabbitMQ adapter's method in progress
    call,              \* the client's call in progress on the selected adapter
    result,            \* outcome of the last completed client call
    prev,              \* outcome of the call completed before it
    ncalls,            \* client calls started so far
    first,             \* the child whose promise settled first in the current call
    poll,              \* SqsQueueService.subscribe: where its poll chain stands
    batch,             \* the messages of the poll's receive still to be processed
    mockTimer,         \* MockQueueService.subscribe: the interval is registered
    handling,          \* handler invocations in progress
    hist,              \* per message, how its latest handler invocation ended
    http,              \* QueueController: the request it serves and its response
    publishOptions,    \* per message number, the options of the publish making it
    delayLeft,         \* per message number, seconds of its delay still to run
    sqsDelayed,        \* SQS queue: messages accepted whose delay is running
    polls,             \* SqsQueueService.subscribe: the poll chain of each call
    pollingInterval,   \* SqsQueueService: the chain whose timer handle is stored
    rmqSetups          \* RabbitMQ channel wrapper: the fetch setups receiveMessages added

sqsVars == <<sqsClient, sqsDestroyed, isPolling, sqsVisible, sqsInFlight, sqsCount>>
rmqVars == <<rmqChannel, rmqLink, isConnected, rmqConsuming, rmqReady, rmqUnacked, rmqCount>>
mockVars == <<messages, messageIdCounter>>
clientVars == <<call, result, prev, ncalls>>
loopVars == <<poll, batch, mockTimer, handling, hist>>
envVars == <<queueProvider, provider>>
optionVars == <<publishOptions, delayLeft, sqsDelayed>>
pollVars == <<polls, pollingInterval>>
appVars == <<envVars, http, optionVars, pollVars, rmqSetups>>
vars == <<appVars, sqsVars, rmqVars, mockVars, sqsOp, rmqOp, clientVars, first, loopVars>>

\* ------------------------------------------------------------ data model
Providers == {"sqs", "rabbitmq", "both", "mock"}

\* ------------------------------------------------------------ queue.module
\* A setting the environment does not define.
Unset == "<unset>"

\* Values QUEUE_PROVIDER is given: the provider names, none, and names the
\* factory has no case for.
ProviderSettings == Providers \cup {Unset, "kafka", "SQS"}

\* `configService.get(key, defaultValue)`
ConfigGet(value, defaultValue) == IF value = Unset THEN defaultValue ELSE value

\* The QUEUE_OPTIONS factory: `configService.get('QUEUE_PROVIDER', 'rabbitmq')`.
QueueOptionsProvider(setting) == ConfigGet(setting, "rabbitmq")

\* The factory threw: the application does not start.
StartupError == "Unknown queue provider"

\* Faulty variant: the switch falls back to the RabbitMQ adapter.
QueueServiceFactoryFallback(name) ==
    IF name \in {"sqs", "both", "mock"} THEN name ELSE "rabbitmq"

\* The QUEUE_SERVICE factory: the switch on options.provider, naming the
\* adapter it returns.
QueueServiceFactory(name) ==
    IF name = "sqs" THEN "sqs"
    ELSE IF name = "rabbitmq" THEN "rabbitmq"
    ELSE IF name = "both" THEN "both"
    ELSE IF name = "mock" THEN "mock"
    ELSE StartupError

\* The adapter injected as QUEUE_SERVICE into the controller and the consumer.
queueService == QueueServiceFactory(provider)

\* Message bodies a caller publishes: a structured value and a string whose
\* text is itself JSON.
ObjHi == [t |-> "obj", v |-> "hi"]
Str42 == [t |-> "str", v |-> "42"]
Num42 == [t |-> "num", v |-> "42"]
NoBody == [t |-> "none", v |-> ""]

\* publishBulkMessages: `{ message: `Test message #${i}`, ... }`
TestMessage(i) == [t |-> "obj", v |-> "Test message #" \o ToString(i)]
Bodies == {ObjHi, Str42}

Min(a, b) == IF a < b THEN a ELSE b

\* `options?.maxNumberOfMessages || 10`: 0 stands for an absent option.
EffectiveMax(n) == IF n = 0 THEN DefaultMaxMessages ELSE n

\* JSON.stringify of a structured value.
JSONStringify(b) ==
    IF b.t = "obj" THEN "{\"message\":\"" \o b.v \o "\"}"
    ELSE IF b.t = "num" THEN b.v
    ELSE "\"" \o b.v \o "\""

\* JSON.parse of a text: the value, or ok = FALSE where JSON.parse throws.
JSONParse(text) ==
    IF text = "{\"message\":\"hi\"}" THEN [ok |-> TRUE, val |-> ObjHi]
    ELSE IF text = "42" THEN [ok |-> TRUE, val |-> Num42]
    ELSE IF text = "\"42\"" THEN [ok |-> TRUE, val |-> Str42]
    ELSE IF \E i \in 1..MaxMsgs : text = JSONStringify(TestMessage(i))
    THEN [ok |-> TRUE,
          val |-> TestMessage(CHOOSE i \in 1..MaxMsgs : text = JSONStringify(TestMessage(i)))]
    ELSE [ok |-> FALSE, val |-> NoBody]

\* `typeof message === 'string' ? message : JSON.stringify(message)`
Serialize(b) == IF b.t = "str" THEN b.v ELSE JSONStringify(b)

\* Faulty variant: the payload is surfaced as text, never parsed.
DeserializeRaw(text) == [t |-> "str", v |-> text]

\* `try { body = JSON.parse(text) } catch { body = text }`
Deserialize(text) ==
    IF JSONParse(text).ok THEN JSONParse(text).val ELSE [t |-> "str", v |-> text]

Comma == <<",">>

\* Array.prototype.join on strings held as token sequences.
RECURSIVE Join(_, _)
Join(parts, sep) ==
    IF parts = <<>> THEN <<>>
    ELSE IF Len(parts) = 1 THEN parts[1]
    ELSE parts[1] \o sep \o Join(Tail(parts), sep)

\* String.prototype.split on a one-token separator.
RECURSIVE Split(_, _)
Split(s, sep) ==
    IF \A i \in 1..Len(s) : s[i] # sep THEN <<s>>
    ELSE LET k == CHOOSE i \in 1..Len(s) :
                      s[i] = sep /\ \A j \in 1..(i - 1) : s[j] # sep
         IN <<SubSeq(s, 1, k - 1)>> \o Split(SubSeq(s, k + 1, Len(s)), sep)

\* ----------------------------------------------------------------- promises
Settled(p) == p.st \in {"fulfilled", "rejected"}

Idle ==
    [st |-> "idle", op |-> "none", body |-> "", max |-> 0, id |-> <<>>,
     msgs |-> <<>>, err |-> "none"]

Pending(op, body, max, id) ==
    [st |-> "pending", op |-> op, body |-> body, max |-> max, id |-> id,
     msgs |-> <<>>, err |-> "none"]

Rejected(op, err) ==
    [st |-> "rejected", op |-> op, body |-> "", max |-> 0, id |-> <<>>,
     msgs |-> <<>>, err |-> err]

Fulfilled(op, id, msgs) ==
    [st |-> "fulfilled", op |-> op, body |-> "", max |-> 0, id |-> id,
     msgs |-> msgs, err |-> "none"]

NoCall == [op |-> "none", body |-> NoBody, max |-> 0, id |-> <<>>]

NoResult ==
    [op |-> "none", st |-> "none", body |-> NoBody, max |-> 0, arg |-> <<>>,
     id |-> <<>>, msgs |-> <<>>, err |-> "none"]

Outcome(c, st, id, msgs, err) ==
    [op |-> c.op, st |-> st, body |-> c.body, max |-> c.max, arg |-> c.id,
     id |-> id, msgs |-> msgs, err |-> err]

\* A request of the controller: the endpoint, the adapter calls it has seen
\* return (as the value of ncalls), what is left of its loop, and the response.
\* publish-bulk has its `count` and its `results` array; clear has its
\* `totalCleared`, and, for the record, the ids it received and the ids it
\* passed to deleteMessage.
NoRequest ==
    [endpoint |-> "none", st |-> "idle", seen |-> 0, count |-> 0, round |-> 0,
     todo |-> <<>>, success |-> "none", error |-> "none", fault |-> FALSE,
     results |-> <<>>, totalCleared |-> 0, got |-> <<>>, deleted |-> <<>>]

\* ---- PublishOptions
\* messageAttributes that is absent, or has no key.
NoAttributes == <<>>

\* Attribute values: a string and a number.
AttrHigh == [t |-> "str", v |-> "high"]

\* publish without options: no delay, no attributes.
NoOptions == [delaySeconds |-> 0, messageAttributes |-> NoAttributes]

\* The options a caller passes to publish.
PublishOptionsSet ==
    {NoOptions,
     [delaySeconds |-> MaxDelay, messageAttributes |-> [priority |-> AttrHigh]],
     [delaySeconds |-> 0, messageAttributes |-> [messageId |-> Num42]]}

\* ------------------------------------------------------------------- Init
\* The state after the module factory has constructed the adapters: either
\* adapter may lack its configuration (no queue URL, no broker URL), and an
\* adapter the selected provider does not use is left without it.
\* The callers' publishes take their options from `options`.
Started(options) ==
    /\ queueProvider \in ProviderSettings
    /\ provider = QueueOptionsProvider(queueProvider)
    /\ sqsClient \in BOOLEAN
    /\ sqsClient => provider \in {"sqs", "both"}
    /\ sqsDestroyed = FALSE
    /\ isPolling = FALSE
    /\ sqsVisible = <<>>
    /\ sqsInFlight = <<>>
    /\ sqsCount = 0
    /\ rmqChannel \in BOOLEAN
    /\ rmqChannel => provider \in {"rabbitmq", "both"}
    /\ rmqLink = "down"
    /\ isConnected = FALSE
    /\ rmqConsuming = FALSE
    /\ rmqReady = <<>>
    /\ rmqUnacked = <<>>
    /\ rmqCount = 0
    /\ messages = <<>>
    /\ messageIdCounter = 0
    /\ sqsOp = Idle
    /\ rmqOp = Idle
    /\ call = NoCall
    /\ result = NoResult
    /\ prev = NoResult
    /\ ncalls = 0
    /\ first = "none"
    /\ poll = "off"
    /\ batch = <<>>
    /\ mockTimer = FALSE
    /\ handling = {}
    /\ hist = [k \in 1..MaxMsgs |-> "new"]
    /\ http = NoRequest
    /\ publishOptions \in [1..MaxMsgs -> options]
    /\ delayLeft = [n \in 1..MaxMsgs |-> publishOptions[n].delaySeconds]
    /\ sqsDelayed = <<>>
    /\ polls = <<>>
    /\ pollingInterval = 0
    /\ rmqSetups = <<>>

\* Callers that publish without options.
Init == Started({NoOptions})

\* ------------------------------------------------------------ SQS adapter
ErrSqsNotInitialized == "SQS client is not initialized"
ErrSqsSend == "SQS request failed"
ErrSqsReceiptHandle == "ReceiptHandleIsInvalid"
ErrSqsInvalidParameter == "InvalidParameterValue"

\* The values of MaxNumberOfMessages a ReceiveMessage request is accepted
\* with, the range SubscribeOptions documents: from 1 up to the number the
\* adapter asks for by default.
SqsMaxNumberOfMessages == 1..DefaultMaxMessages

SqsMessageId(k) == <<"sqs-" \o ToString(k)>>
ReceiptHandle(k) == <<"rh-" \o ToString(k)>>

\* mapSqsMessage: the receipt handle becomes the id, the body is parsed.
mapSqsMessage(msg) == [id |-> ReceiptHandle(msg.n), body |-> Deserialize(msg.body)]

MapSqs(ms) == [i \in 1..Len(ms) |-> mapSqsMessage(ms[i])]

\* publish, up to `await this.sqsClient.send(command)`.
SqsPublish(m) ==
    /\ sqsOp' = IF ~sqsClient
                THEN Rejected("publish", ErrSqsNotInitialized)
                ELSE Pending("publish", Serialize(m), 0, <<>>)
    /\ UNCHANGED sqsVars

\* The SendMessage request completes: the queue accepted the message and
\* publish returns response.MessageId, or the request failed and publish rethrows.
\* The queue accepts a message sent with `DelaySeconds: options?.delaySeconds`:
\* a receive can return it once its delay has run.
SqsAccept(msg) ==
    IF msg.n \in DOMAIN delayLeft /\ delayLeft[msg.n] > 0
    THEN sqsDelayed' = Append(sqsDelayed, msg) /\ UNCHANGED sqsVisible
    ELSE sqsVisible' = Append(sqsVisible, msg) /\ UNCHANGED sqsDelayed

SqsSendMessage ==
    /\ sqsOp.st = "pending" /\ sqsOp.op = "publish"
    /\ \/ /\ sqsCount' = sqsCount + 1
          /\ SqsAccept([n |-> sqsCount + 1, body |-> sqsOp.body])
          /\ sqsOp' = Fulfilled("publish", SqsMessageId(sqsCount + 1), <<>>)
          /\ UNCHANGED <<sqsClient, sqsDestroyed, isPolling, sqsInFlight>>
       \/ /\ sqsOp' = Rejected("publish", ErrSqsSend)
          /\ UNCHANGED <<sqsVars, sqsDelayed>>
    /\ first' = IF first = "none" THEN "sqs" ELSE first
    /\ UNCHANGED <<envVars, http, publishOptions, delayLeft, pollVars, rmqSetups>>
    /\ UNCHANGED <<loopVars, rmqVars, mockVars, rmqOp, clientVars>>

\* receiveMessages, up to `await this.sqsClient.send(command)`.
SqsReceiveMessages(n) ==
    /\ sqsOp' = IF ~sqsClient
                THEN Rejected("receive", ErrSqsNotInitialized)
                ELSE Pending("receive", "", EffectiveMax(n), <<>>)
    /\ UNCHANGED sqsVars

\* How many messages one ReceiveMessage request may return: none from an empty
\* queue, otherwise between one and MaxNumberOfMessages of those visible.
SqsBatchSizes(max) ==
    IF sqsVisible = <<>> THEN {0} ELSE 1..Min(max, Len(sqsVisible))

\* Faulty variant: `response.Messages`, absent when nothing was received, is
\* mapped without the `|| []`.
SqsReceiveMessageNoDefault ==
    /\ sqsOp.st = "pending" /\ sqsOp.op = "receive"
    /\ \/ \E k \in SqsBatchSizes(sqsOp.max) :
             /\ sqsOp.max \in SqsMaxNumberOfMessages
             /\ sqsVisible' = SubSeq(sqsVisible, k + 1, Len(sqsVisible))
             /\ sqsInFlight' = sqsInFlight \o SubSeq(sqsVisible, 1, k)
             /\ sqsOp' = IF k = 0
                         THEN Rejected("receive", "TypeError")
                         ELSE Fulfilled("receive", <<>>, MapSqs(SubSeq(sqsVisible, 1, k)))
             /\ UNCHANGED <<sqsClient, sqsDestroyed, isPolling, sqsCount>>
       \/ /\ sqsOp.max \notin SqsMaxNumberOfMessages
          /\ sqsOp' = Rejected("receive", ErrSqsInvalidParameter)
          /\ UNCHANGED sqsVars
       \/ /\ sqsOp' = Rejected("receive", ErrSqsSend)
          /\ UNCHANGED sqsVars
    /\ first' = IF first = "none" THEN "sqs" ELSE first
    /\ UNCHANGED <<appVars, loopVars, rmqVars, mockVars, rmqOp, clientVars>>

\* The ReceiveMessage request completes: the returned messages become in
\* flight and are mapped, or the request failed and receiveMessages rethrows.
\* The queue refuses a request whose MaxNumberOfMessages it does not accept.
SqsReceiveMessage ==
    /\ sqsOp.st = "pending" /\ sqsOp.op = "receive"
    /\ \/ \E k \in SqsBatchSizes(sqsOp.max) :
             /\ sqsOp.max \in SqsMaxNumberOfMessages
             /\ sqsVisible' = SubSeq(sqsVisible, k + 1, Len(sqsVisible))
             /\ sqsInFlight' = sqsInFlight \o SubSeq(sqsVisible, 1, k)
             /\ sqsOp' = Fulfilled("receive", <<>>, MapSqs(SubSeq(sqsVisible, 1, k)))
             /\ UNCHANGED <<sqsClient, sqsDestroyed, isPolling, sqsCount>>
       \/ /\ sqsOp.max \notin SqsMaxNumberOfMessages
          /\ sqsOp' = Rejected("receive", ErrSqsInvalidParameter)
          /\ UNCHANGED sqsVars
       \/ /\ sqsOp' = Rejected("receive", ErrSqsSend)
          /\ UNCHANGED sqsVars
    /\ first' = IF first = "none" THEN "sqs" ELSE first
    /\ UNCHANGED <<appVars, loopVars, rmqVars, mockVars, rmqOp, clientVars>>

\* deleteMessage, up to `await this.sqsClient.send(command)`.
SqsDeleteMessage(id) ==
    /\ sqsOp' = IF ~sqsClient
                THEN Rejected("delete", ErrSqsNotInitialized)
                ELSE Pending("delete", "", 0, id)
    /\ UNCHANGED sqsVars

\* The DeleteMessage request completes: the in-flight message with that
\* receipt handle is removed; any other id is rejected by the queue.
SqsDeleteMessageDone ==
    /\ sqsOp.st = "pending" /\ sqsOp.op = "delete"
    /\ \/ /\ \E i \in 1..Len(sqsInFlight) : ReceiptHandle(sqsInFlight[i].n) = sqsOp.id
          /\ sqsInFlight' = SelectSeq(sqsInFlight, LAMBDA x : ReceiptHandle(x.n) # sqsOp.id)
          /\ sqsOp' = Fulfilled("delete", <<>>, <<>>)
          /\ UNCHANGED <<sqsClient, sqsDestroyed, isPolling, sqsVisible, sqsCount>>
       \/ /\ \A i \in 1..Len(sqsInFlight) : ReceiptHandle(sqsInFlight[i].n) # sqsOp.id
          /\ sqsOp' = Rejected("delete", ErrSqsReceiptHandle)
          /\ UNCHANGED sqsVars
       \/ /\ sqsOp' = Rejected("delete", ErrSqsSend)
          /\ UNCHANGED sqsVars
    /\ first' = IF first = "none" THEN "sqs" ELSE first
    /\ UNCHANGED <<appVars, loopVars, rmqVars, mockVars, rmqOp, clientVars>>

\* subscribe: sets isPolling, starts the poll chain and returns.  Only the
\* flag is kept here; the steps of the chain are not part of this model.
SqsSubscribe ==
    /\ sqsOp' = IF ~sqsClient
                THEN Rejected("subscribe", ErrSqsNotInitialized)
                ELSE Fulfilled("subscribe", <<>>, <<>>)
    /\ isPolling' = (sqsClient \/ isPolling)
    /\ UNCHANGED <<sqsClient, sqsDestroyed, sqsVisible, sqsInFlight, sqsCount>>

\* close: no await in it; it raises only if sqsClient.destroy() throws, which
\* tearing down the request handler of a live client may do; destroy() of a
\* client that was destroyed before finds nothing to tear down.
SqsClose ==
    /\ isPolling' = FALSE
    /\ \E destroyThrows \in BOOLEAN :
          /\ destroyThrows => (sqsClient /\ ~sqsDestroyed)
          /\ sqsOp' = IF destroyThrows
                      THEN Rejected("close", "destroy failed")
                      ELSE Fulfilled("close", <<>>, <<>>)
    /\ sqsDestroyed' = (sqsClient \/ sqsDestroyed)
    /\ UNCHANGED <<sqsClient, sqsVisible, sqsInFlight, sqsCount>>

\* ------------------------------------------------------ handler invocations
\* An invocation of the subscriber's callback that has not completed: the
\* message passed to it, its number, and whether the channel that delivered
\* it is still open (always so outside RabbitMQ).
Invocation(k, msg) == [k |-> k, msg |-> msg, live |-> TRUE]

\* The channel is gone: what it delivered can no longer be acknowledged on it.
Stale(hs) == {[h EXCEPT !.live = FALSE] : h \in hs}

\* ------------------------------------------------------- RabbitMQ adapter
ErrRmqNotConnected == "RabbitMQ is not connected"
ErrRmqChannel == "RabbitMQ channel error"

\* generateMessageId: a fresh token per call.
generateMessageId(k) == <<"rmq-" \o ToString(k)>>

\* mapRabbitMqMessage: properties.messageId is the id, the content is parsed.
mapRabbitMqMessage(msg) == [id |-> generateMessageId(msg.n), body |-> Deserialize(msg.body)]

MapRmq(ms) == [i \in 1..Len(ms) |-> mapRabbitMqMessage(ms[i])]

\* The connection manager's 'connect' event.
RmqConnect ==
    /\ rmqChannel /\ rmqLink = "down"
    /\ rmqLink' = "up"
    /\ isConnected' = TRUE
    /\ UNCHANGED <<rmqChannel, rmqConsuming, rmqReady, rmqUnacked, rmqCount>>
    /\ UNCHANGED <<appVars, loopVars, sqsVars, mockVars, sqsOp, rmqOp, clientVars, first>>

\* The connection manager's 'disconnect' event; the broker requeues what the
\* lost channel had not acknowledged.
RmqDisconnect ==
    /\ rmqLink = "up"
    /\ rmqLink' = "down"
    /\ isConnected' = FALSE
    /\ rmqReady' = rmqUnacked \o rmqReady
    /\ rmqUnacked' = <<>>
    /\ handling' = Stale(handling)
    /\ UNCHANGED <<rmqChannel, rmqConsuming, rmqCount>>
    /\ UNCHANGED <<appVars, poll, batch, mockTimer, hist>>
    /\ UNCHANGED <<sqsVars, mockVars, sqsOp, rmqOp, clientVars, first>>

\* publish, up to `await this.channelWrapper.publish(...)`.
RmqPublish(m) ==
    /\ rmqOp' = IF ~isConnected
                THEN Rejected("publish", ErrRmqNotConnected)
                ELSE Pending("publish", Serialize(m), 0, generateMessageId(rmqCount + 1))
    /\ rmqCount' = IF isConnected THEN rmqCount + 1 ELSE rmqCount
    /\ UNCHANGED <<rmqChannel, rmqLink, isConnected, rmqConsuming, rmqReady, rmqUnacked>>

\* channelWrapper.publish completes: the broker confirmed the message, which
\* needs the channel, or the publish failed and the adapter rethrows.
RmqPublishDone ==
    /\ rmqOp.st = "pending" /\ rmqOp.op = "publish"
    /\ \/ /\ rmqLink = "up"
          /\ rmqReady' = Append(rmqReady,
                 [n |-> CHOOSE k \in 1..rmqCount : generateMessageId(k) = rmqOp.id,
                  body |-> rmqOp.body])
          /\ rmqOp' = Fulfilled("publish", rmqOp.id, <<>>)
          /\ UNCHANGED <<rmqChannel, rmqLink, isConnected, rmqConsuming, rmqUnacked, rmqCount>>
       \/ /\ rmqOp' = Rejected("publish", ErrRmqChannel)
          /\ UNCHANGED rmqVars
    /\ first' = IF first = "none" THEN "rmq" ELSE first
    /\ UNCHANGED <<appVars, loopVars, sqsVars, mockVars, sqsOp, clientVars>>

\* receiveMessages, up to the promise around channelWrapper.addSetup.
RmqReceiveMessages(n) ==
    /\ rmqOp' = IF ~isConnected
                THEN Rejected("receive", ErrRmqNotConnected)
                ELSE Pending("receive", "", EffectiveMax(n), <<>>)
    /\ UNCHANGED rmqVars

\* The setup function runs on the channel: channel.get up to max times, until
\* the queue is empty; every message got stays unacknowledged.  A channel.get
\* that throws after j messages rejects the promise.
RmqGetLoop ==
    /\ rmqOp.st = "pending" /\ rmqOp.op = "receive"
    /\ rmqLink = "up"
    /\ LET k == Min(rmqOp.max, Len(rmqReady)) IN
       \/ /\ rmqReady' = SubSeq(rmqReady, k + 1, Len(rmqReady))
          /\ rmqUnacked' = rmqUnacked \o SubSeq(rmqReady, 1, k)
          /\ rmqOp' = Fulfilled("receive", <<>>, MapRmq(SubSeq(rmqReady, 1, k)))
       \/ \E j \in 0..k :
             /\ rmqReady' = SubSeq(rmqReady, j + 1, Len(rmqReady))
             /\ rmqUnacked' = rmqUnacked \o SubSeq(rmqReady, 1, j)
             /\ rmqOp' = Rejected("receive", ErrRmqChannel)
    /\ UNCHANGED <<rmqChannel, rmqLink, isConnected, rmqConsuming, rmqCount>>
    /\ first' = IF first = "none" THEN "rmq" ELSE first
    /\ UNCHANGED <<appVars, loopVars, sqsVars, mockVars, sqsOp, clientVars>>

\* deleteMessage: a no-op that only logs.
RmqDeleteMessage(id) ==
    /\ rmqOp' = Fulfilled("delete", <<>>, <<>>)
    /\ UNCHANGED rmqVars

\* subscribe, up to `await this.channelWrapper.addSetup(...)`.
RmqSubscribe ==
    /\ rmqOp' = IF ~isConnected
                THEN Rejected("subscribe", ErrRmqNotConnected)
                ELSE Pending("subscribe", "", 0, <<>>)
    /\ UNCHANGED rmqVars

\* addSetup completes: the consumer is registered, or channel.consume failed.
RmqSubscribeDone ==
    /\ rmqOp.st = "pending" /\ rmqOp.op = "subscribe"
    /\ \/ /\ rmqOp' = Fulfilled("subscribe", <<>>, <<>>)
          /\ rmqConsuming' = TRUE
       \/ /\ rmqLink = "up"
          /\ rmqOp' = Rejected("subscribe", ErrRmqChannel)
          /\ UNCHANGED rmqConsuming
    /\ UNCHANGED <<rmqChannel, rmqLink, isConnected, rmqReady, rmqUnacked, rmqCount>>
    /\ first' = IF first = "none" THEN "rmq" ELSE first
    /\ UNCHANGED <<appVars, loopVars, sqsVars, mockVars, sqsOp, clientVars>>

\* close, up to `await this.channelWrapper.close()`; without a channel there is
\* nothing to await.
RmqClose ==
    /\ rmqOp' = IF rmqChannel
                THEN Pending("close", "", 0, <<>>)
                ELSE Fulfilled("close", <<>>, <<>>)
    /\ isConnected' = (rmqChannel /\ isConnected)
    /\ UNCHANGED <<rmqChannel, rmqLink, rmqConsuming, rmqReady, rmqUnacked, rmqCount>>

\* Faulty variant: no catch block, and closing what is closed already raises.
RmqCloseDoneNoCatch ==
    /\ rmqOp.st = "pending" /\ rmqOp.op = "close"
    /\ IF rmqLink = "closed"
       THEN /\ rmqOp' = Rejected("close", ErrRmqChannel)
            /\ UNCHANGED <<rmqVars, handling>>
       ELSE /\ rmqOp' = Fulfilled("close", <<>>, <<>>)
            /\ rmqLink' = "closed"
            /\ isConnected' = FALSE
            /\ rmqConsuming' = FALSE
            /\ rmqReady' = rmqUnacked \o rmqReady
            /\ rmqUnacked' = <<>>
            /\ handling' = Stale(handling)
            /\ UNCHANGED <<rmqChannel, rmqCount>>
    /\ first' = IF first = "none" THEN "rmq" ELSE first
    /\ UNCHANGED <<appVars, poll, batch, mockTimer, hist>>
    /\ UNCHANGED <<sqsVars, mockVars, sqsOp, clientVars>>

\* The channel and the connection closed, or one of the two raised: the catch
\* block logs, and close returns normally in both cases.
RmqCloseDone ==
    /\ rmqOp.st = "pending" /\ rmqOp.op = "close"
    /\ \/ /\ rmqLink' = "closed"
          /\ isConnected' = FALSE
          /\ rmqConsuming' = FALSE
          /\ rmqReady' = rmqUnacked \o rmqReady
          /\ rmqUnacked' = <<>>
          /\ handling' = Stale(handling)
          /\ UNCHANGED <<rmqChannel, rmqCount>>
       \/ UNCHANGED <<rmqVars, handling>>
    /\ rmqOp' = Fulfilled("close", <<>>, <<>>)
    /\ first' = IF first = "none" THEN "rmq" ELSE first
    /\ UNCHANGED <<appVars, poll, batch, mockTimer, hist>>
    /\ UNCHANGED <<sqsVars, mockVars, sqsOp, clientVars>>

\* ----------------------------------------------------------- mock adapter
MockMessageId(k) == <<"mock-msg-" \o ToString(k)>>

\* The mock's methods have no await: each runs to completion in one step and
\* yields its promise, already settled.
MockPublish(m) ==
    /\ messageIdCounter' = messageIdCounter + 1
    /\ messages' = Append(messages, [id |-> MockMessageId(messageIdCounter + 1), body |-> m])

MockPublishResult == Fulfilled("publish", MockMessageId(messageIdCounter + 1), <<>>)

\* `this.messages.splice(0, maxMessages)`
\* Faulty variant: the newest messages are taken.
MockReceivedNewest(n) ==
    SubSeq(messages, Len(messages) - Min(EffectiveMax(n), Len(messages)) + 1, Len(messages))

MockReceived(n) ==
    SubSeq(messages, 1, Min(EffectiveMax(n), Len(messages)))

MockReceiveMessages(n) ==
    /\ messages' = SubSeq(messages, Len(MockReceived(n)) + 1, Len(messages))
    /\ UNCHANGED messageIdCounter

MockDeleteMessage(id) ==
    /\ messages' = SelectSeq(messages, LAMBDA x : x.id # id)
    /\ UNCHANGED messageIdCounter

MockClose ==
    /\ messages' = <<>>
    /\ UNCHANGED messageIdCounter

\* ------------------------------------------------------ composite adapter
ErrNoProvider == "Failed to publish message to any queue provider"

\* Promise.allSettled: fulfilled once every promise has settled, never rejected.
PromiseAllSettled(ps) ==
    IF \A i \in 1..Len(ps) : Settled(ps[i]) THEN "fulfilled" ELSE "pending"

\* Promise.all: rejected as soon as one promise is rejected, whatever the state
\* of the others, and fulfilled once every promise is fulfilled.
PromiseAll(ps) ==
    IF \E i \in 1..Len(ps) : ps[i].st = "rejected" THEN "rejected"
    ELSE IF \A i \in 1..Len(ps) : ps[i].st = "fulfilled" THEN "fulfilled"
    ELSE "pending"

\* The reasons Promise.all may reject with: that of the promise rejected first.
Reasons(ps) == {ps[i].err : i \in {j \in 1..Len(ps) : ps[j].st = "rejected"}}

\* Faulty variant: the catch handler is missing.
CatchEmptyMissing(p) == p

\* `promise.catch(() => [])`: a rejection becomes an empty list.
CatchEmpty(p) == IF p.st = "rejected" THEN Fulfilled(p.op, <<>>, <<>>) ELSE p

\* Faulty variant: sequential dispatch that stops at the first child that fails.
CompositePublishShortCircuit(m) ==
    /\ SqsPublish(m)
    /\ IF sqsClient THEN RmqPublish(m) ELSE rmqOp' = Idle /\ UNCHANGED rmqVars

\* publish, lines 29-32: both children's publish are called, SQS first.
CompositePublish(m) == SqsPublish(m) /\ RmqPublish(m)

\* Faulty variant: a failed child leaves an empty placeholder among the ids.
successfulIdsPlaceholder(results) ==
    [i \in 1..Len(results) |-> IF results[i].st = "fulfilled" THEN results[i].id ELSE <<>>]

\* publish, lines 34-46: the ids of the fulfilled results, in child order.
successfulIds(results) ==
    LET ok == SelectSeq(results, LAMBDA r : r.st = "fulfilled")
    IN [i \in 1..Len(ok) |-> ok[i].id]

\* Faulty variant: the publish fails as soon as one child failed.
CompositePublishOutcomeAnyFails(results) ==
    IF Len(successfulIds(results)) < Len(results)
    THEN Rejected("publish", ErrNoProvider)
    ELSE Fulfilled("publish", Join(successfulIds(results), Comma), <<>>)

\* publish, lines 48-52: the outcome for the caller.
CompositePublishOutcome(results) ==
    IF Len(successfulIds(results)) = 0
    THEN Rejected("publish", ErrNoProvider)
    ELSE Fulfilled("publish", Join(successfulIds(results), Comma), <<>>)

\* receiveMessages, lines 73-82.
CompositeReceiveMessages(n) == SqsReceiveMessages(n) /\ RmqReceiveMessages(n)

\* Faulty variant: the lists are concatenated in the order the children answered.
CompositeReceiveOutcomeByArrival(sqsMessages, rabbitMqMessages) ==
    Fulfilled("receive", <<>>,
              IF first = "rmq" THEN rabbitMqMessages \o sqsMessages
              ELSE sqsMessages \o rabbitMqMessages)

\* receiveMessages, line 94: `[...sqsMessages, ...rabbitMqMessages]`.
CompositeReceiveOutcome(sqsMessages, rabbitMqMessages) ==
    Fulfilled("receive", <<>>, sqsMessages \o rabbitMqMessages)

\* deleteMessage, lines 99-102.
CompositeDeleteMessage(id) == SqsDeleteMessage(id) /\ RmqDeleteMessage(id)

\* Faulty variant: a child's rejection is passed on, as Promise.all would.
CompositeDeleteOutcomeAll(results) ==
    IF \E i \in 1..Len(results) : results[i].st = "rejected"
    THEN Rejected("delete", "child failed")
    ELSE Fulfilled("delete", <<>>, <<>>)

\* deleteMessage ignores what Promise.allSettled resolved with.
CompositeDeleteOutcome(results) == Fulfilled("delete", <<>>, <<>>)

\* subscribe, lines 58-67.
CompositeSubscribe == SqsSubscribe /\ RmqSubscribe

\* close, line 110.
CompositeClose == SqsClose /\ RmqClose

\* ------------------------------------------------------ getQueueIdentifier
\* A JavaScript value that is a string or undefined.
Str(v) == [t |-> "str", v |-> v]
Undefined == [t |-> "undefined", v |-> ""]

\* `${value}` in a template literal.
Template(x) == IF x.t = "undefined" THEN "undefined" ELSE x.v

\* The fields initializeSqsClient and initializeRabbitMq assign, which stay
\* undefined when they return early for want of configuration.
queueUrl == IF sqsClient THEN Str("http://sqs/queue") ELSE Undefined
exchangeName == IF rmqChannel THEN Str("exchange") ELSE Undefined
queueName == IF rmqChannel THEN Str("queue") ELSE Undefined

\* SqsQueueService.getQueueIdentifier: `return this.queueUrl`.
SqsGetQueueIdentifier == queueUrl

\* RabbitMqQueueService.getQueueIdentifier: `${exchangeName}/${queueName}`.
RmqGetQueueIdentifier == Str(Template(exchangeName) \o "/" \o Template(queueName))

MockGetQueueIdentifier == Str("mock-queue (in-memory)")

\* CompositeQueueService.getQueueIdentifier: `composite[${sqs},${rabbit}]`.
CompositeGetQueueIdentifier ==
    Str("composite[" \o Template(SqsGetQueueIdentifier) \o ","
            \o Template(RmqGetQueueIdentifier) \o "]")

\* getQueueIdentifier of the adapter the factory selected.
getQueueIdentifier ==
    IF queueService = "sqs" THEN SqsGetQueueIdentifier
    ELSE IF queueService = "rabbitmq" THEN RmqGetQueueIdentifier
    ELSE IF queueService = "both" THEN CompositeGetQueueIdentifier
    ELSE MockGetQueueIdentifier

\* ------------------------------------------------------------ the client
\* The client is the controller or the consumer service: it holds the adapter
\* the factory selected and has one call in progress at a time.
CanCall ==
    /\ call.op = "none"
    /\ sqsOp.st # "pending" /\ rmqOp.st # "pending"
    /\ ncalls < MaxCalls

Begin(op, body, max, id) ==
    /\ call' = [op |-> op, body |-> body, max |-> max, id |-> id]
    /\ ncalls' = ncalls + 1
    /\ UNCHANGED <<result, prev>>

\* The awaited promise p settled: the caller has its outcome.
Finish(p) ==
    /\ result' = Outcome(call, p.st, p.id, p.msgs, p.err)
    /\ prev' = result
    /\ call' = NoCall
    /\ UNCHANGED ncalls

\* A call on the mock settles in the step that makes it.
Complete(op, body, max, id, p) ==
    /\ result' = Outcome([op |-> op, body |-> body, max |-> max, id |-> id],
                         p.st, p.id, p.msgs, p.err)
    /\ prev' = result
    /\ call' = NoCall
    /\ ncalls' = ncalls + 1

ReceiveArgs == 0..MaxN

\* Ids a caller may pass to deleteMessage: those of the messages it last
\* received, the id its last publish returned, and an id no backend knows.
DeleteArgs ==
    {<<"bogus">>} \cup {result.msgs[i].id : i \in 1..Len(result.msgs)}
                  \cup (IF result.id = <<>> THEN {} ELSE {result.id})

\* What the children's synchronous prefixes leave behind: the child already
\* settled when the composite starts to wait, SQS being called first.
FirstSettled ==
    first' = IF Settled(sqsOp') THEN "sqs" ELSE IF Settled(rmqOp') THEN "rmq" ELSE "none"

\* publish is called with a message taken from bodies.
PublishWith(bodies) ==
    /\ CanCall
    /\ sqsCount < MaxMsgs /\ rmqCount < MaxMsgs /\ messageIdCounter < MaxMsgs
    /\ \E m \in bodies :
       \/ /\ queueService = "sqs"
          /\ SqsPublish(m) /\ Begin("publish", m, 0, <<>>)
          /\ UNCHANGED <<rmqOp, rmqVars, mockVars>>
       \/ /\ queueService = "rabbitmq"
          /\ RmqPublish(m) /\ Begin("publish", m, 0, <<>>)
          /\ UNCHANGED <<sqsOp, sqsVars, mockVars>>
       \/ /\ queueService = "both"
          /\ CompositePublish(m) /\ Begin("publish", m, 0, <<>>)
          /\ UNCHANGED mockVars
       \/ /\ queueService = "mock"
          /\ MockPublish(m) /\ Complete("publish", m, 0, <<>>, MockPublishResult)
          /\ UNCHANGED <<sqsOp, sqsVars, rmqOp, rmqVars>>
    /\ FirstSettled
    /\ UNCHANGED <<appVars, loopVars>>

CallPublish == PublishWith(Bodies)

\* receiveMessages is called with maxNumberOfMessages taken from args.
ReceiveWith(args) ==
    /\ CanCall
    /\ \E n \in args :
       \/ /\ queueService = "sqs"
          /\ SqsReceiveMessages(n) /\ Begin("receive", NoBody, n, <<>>)
          /\ UNCHANGED <<rmqOp, rmqVars, mockVars>>
       \/ /\ queueService = "rabbitmq"
          /\ RmqReceiveMessages(n) /\ Begin("receive", NoBody, n, <<>>)
          /\ UNCHANGED <<sqsOp, sqsVars, mockVars>>
       \/ /\ queueService = "both"
          /\ CompositeReceiveMessages(n) /\ Begin("receive", NoBody, n, <<>>)
          /\ UNCHANGED mockVars
       \/ /\ queueService = "mock"
          /\ MockReceiveMessages(n)
          /\ Complete("receive", NoBody, n, <<>>, Fulfilled("receive", <<>>, MockReceived(n)))
          /\ UNCHANGED <<sqsOp, sqsVars, rmqOp, rmqVars>>
    /\ FirstSettled
    /\ UNCHANGED <<appVars, loopVars>>

CallReceiveMessages == ReceiveWith(ReceiveArgs)

\* deleteMessage is called with an id taken from ids.
DeleteWith(ids) ==
    /\ CanCall
    /\ \E id \in ids :
       \/ /\ queueService = "sqs"
          /\ SqsDeleteMessage(id) /\ Begin("delete", NoBody, 0, id)
          /\ UNCHANGED <<rmqOp, rmqVars, mockVars>>
       \/ /\ queueService = "rabbitmq"
          /\ RmqDeleteMessage(id) /\ Begin("delete", NoBody, 0, id)
          /\ UNCHANGED <<sqsOp, sqsVars, mockVars>>
       \/ /\ queueService = "both"
          /\ CompositeDeleteMessage(id) /\ Begin("delete", NoBody, 0, id)
          /\ UNCHANGED mockVars
       \/ /\ queueService = "mock"
          /\ MockDeleteMessage(id)
          /\ Complete("delete", NoBody, 0, id, Fulfilled("delete", <<>>, <<>>))
          /\ UNCHANGED <<sqsOp, sqsVars, rmqOp, rmqVars>>
    /\ FirstSettled
    /\ UNCHANGED <<appVars, loopVars>>

CallDeleteMessage == DeleteWith(DeleteArgs)

CallSubscribe ==
    /\ CanCall
    /\ \/ /\ queueService = "sqs"
          /\ SqsSubscribe /\ Begin("subscribe", NoBody, 0, <<>>)
          /\ UNCHANGED <<rmqOp, rmqVars, mockVars>>
       \/ /\ queueService = "rabbitmq"
          /\ RmqSubscribe /\ Begin("subscribe", NoBody, 0, <<>>)
          /\ UNCHANGED <<sqsOp, sqsVars, mockVars>>
       \/ /\ queueService = "both"
          /\ CompositeSubscribe /\ Begin("subscribe", NoBody, 0, <<>>)
          /\ UNCHANGED mockVars
    /\ FirstSettled
    /\ UNCHANGED <<appVars, loopVars>>

CallClose ==
    /\ CanCall
    /\ \/ /\ queueService = "sqs"
          /\ SqsClose /\ Begin("close", NoBody, 0, <<>>)
          /\ UNCHANGED <<rmqOp, rmqVars, mockVars>>
       \/ /\ queueService = "rabbitmq"
          /\ RmqClose /\ Begin("close", NoBody, 0, <<>>)
          /\ UNCHANGED <<sqsOp, sqsVars, mockVars>>
       \/ /\ queueService = "both"
          /\ CompositeClose /\ Begin("close", NoBody, 0, <<>>)
          /\ UNCHANGED mockVars
       \/ /\ queueService = "mock"
          /\ MockClose
          /\ Complete("close", NoBody, 0, <<>>, Fulfilled("close", <<>>, <<>>))
          /\ UNCHANGED <<sqsOp, sqsVars, rmqOp, rmqVars>>
    /\ FirstSettled
    /\ UNCHANGED <<appVars, loopVars>>

\* A call made directly on the SQS or the RabbitMQ adapter returns when that
\* adapter's promise settles.
DirectReturn ==
    /\ call.op # "none"
    /\ \/ queueService = "sqs" /\ Settled(sqsOp) /\ Finish(sqsOp)
       \/ queueService = "rabbitmq" /\ Settled(rmqOp) /\ Finish(rmqOp)
    /\ UNCHANGED <<appVars, loopVars, sqsVars, rmqVars, mockVars, sqsOp, rmqOp, first>>

\* publish, after `await Promise.allSettled([...])`.
CompositePublishReturn ==
    /\ queueService = "both" /\ call.op = "publish"
    /\ PromiseAllSettled(<<sqsOp, rmqOp>>) = "fulfilled"
    /\ Finish(CompositePublishOutcome(<<sqsOp, rmqOp>>))
    /\ UNCHANGED <<appVars, loopVars, sqsVars, rmqVars, mockVars, sqsOp, rmqOp, first>>

\* receiveMessages, after `await Promise.all([...])` of the two caught promises.
CompositeReceiveReturn ==
    /\ queueService = "both" /\ call.op = "receive"
    /\ Settled(sqsOp) /\ Settled(rmqOp)
    /\ LET ps == <<CatchEmpty(sqsOp), CatchEmpty(rmqOp)>> IN
       \E err \in Reasons(ps) \cup {"none"} :
          /\ (err = "none") = (PromiseAll(ps) = "fulfilled")
          /\ Finish(IF PromiseAll(ps) = "fulfilled"
                    THEN CompositeReceiveOutcome(ps[1].msgs, ps[2].msgs)
                    ELSE Rejected("receive", err))
    /\ UNCHANGED <<appVars, loopVars, sqsVars, rmqVars, mockVars, sqsOp, rmqOp, first>>

\* deleteMessage, after `await Promise.allSettled([...])`.
CompositeDeleteReturn ==
    /\ queueService = "both" /\ call.op = "delete"
    /\ PromiseAllSettled(<<sqsOp, rmqOp>>) = "fulfilled"
    /\ Finish(CompositeDeleteOutcome(<<sqsOp, rmqOp>>))
    /\ UNCHANGED <<appVars, loopVars, sqsVars, rmqVars, mockVars, sqsOp, rmqOp, first>>

\* Faulty variant: the children are joined with Promise.allSettled, so the
\* call returns normally once both have settled, whatever their outcome.
CompositeSubscribeReturnSettled ==
    /\ queueService = "both" /\ call.op = "subscribe"
    /\ PromiseAllSettled(<<sqsOp, rmqOp>>) = "fulfilled"
    /\ Finish(Fulfilled("subscribe", <<>>, <<>>))
    /\ UNCHANGED <<appVars, loopVars, sqsVars, rmqVars, mockVars, sqsOp, rmqOp, first>>

\* subscribe, after `await Promise.all([...])`: the call returns when both
\* children are fulfilled and raises as soon as one child is rejected.
CompositeSubscribeReturn ==
    /\ queueService = "both" /\ call.op = "subscribe"
    /\ PromiseAll(<<sqsOp, rmqOp>>) # "pending"
    /\ \E err \in Reasons(<<sqsOp, rmqOp>>) \cup {"none"} :
          /\ (err = "none") = (PromiseAll(<<sqsOp, rmqOp>>) = "fulfilled")
          /\ Finish(IF err = "none"
                    THEN Fulfilled("subscribe", <<>>, <<>>)
                    ELSE Rejected("subscribe", err))
    /\ UNCHANGED <<appVars, loopVars, sqsVars, rmqVars, mockVars, sqsOp, rmqOp, first>>

\* close, after `await Promise.all([...])`, likewise.
CompositeCloseReturn ==
    /\ queueService = "both" /\ call.op = "close"
    /\ PromiseAll(<<sqsOp, rmqOp>>) # "pending"
    /\ \E err \in Reasons(<<sqsOp, rmqOp>>) \cup {"none"} :
          /\ (err = "none") = (PromiseAll(<<sqsOp, rmqOp>>) = "fulfilled")
          /\ Finish(IF err = "none"
                    THEN Fulfilled("close", <<>>, <<>>)
                    ELSE Rejected("close", err))
    /\ UNCHANGED <<appVars, loopVars, sqsVars, rmqVars, mockVars, sqsOp, rmqOp, first>>

Next ==
    \/ CallPublish
    \/ CallReceiveMessages
    \/ CallDeleteMessage
    \/ CallSubscribe
    \/ CallClose
    \/ DirectReturn
    \/ CompositePublishReturn
    \/ CompositeReceiveReturn
    \/ CompositeDeleteReturn
    \/ CompositeSubscribeReturn
    \/ CompositeCloseReturn
    \/ SqsSendMessage
    \/ SqsReceiveMessage
    \/ SqsDeleteMessageDone
    \/ RmqConnect
    \/ RmqDisconnect
    \/ RmqPublishDone
    \/ RmqGetLoop
    \/ RmqSubscribeDone
    \/ RmqCloseDone

Spec == Init /\ [][Next]_vars

\* ====================================================== the subscribe loops
\* What subscribe starts on each adapter, with the subscriber's callback (the
\* handler) as a two-step call: it is invoked, and later its promise settles,
\* fulfilled or rejected.  Messages reach the queues from any producer.

\* `maxNumberOfMessages: 10` of the poll's receiveMessages call.
PollMaxMessages == 10

\* The number of the message a receipt handle or a mock id belongs to.
SqsKey(id) == CHOOSE k \in 1..sqsCount : ReceiptHandle(k) = id
MockKey(id) == CHOOSE k \in 1..messageIdCounter : MockMessageId(k) = id

Handled(k, ok) == hist' = [hist EXCEPT ![k] = IF ok THEN "ok" ELSE "failed"]

\* A message is accepted by the queue of the adapter.
ProduceOn(adapter) ==
    /\ \/ /\ adapter = "sqs" /\ sqsCount < MaxMsgs
          /\ sqsCount' = sqsCount + 1
          /\ sqsVisible' = Append(sqsVisible, [n |-> sqsCount + 1, body |-> Serialize(ObjHi)])
          /\ UNCHANGED <<sqsClient, sqsDestroyed, isPolling, sqsInFlight, rmqVars, mockVars>>
       \/ /\ adapter = "rabbitmq" /\ rmqCount < MaxMsgs
          /\ rmqCount' = rmqCount + 1
          /\ rmqReady' = Append(rmqReady, [n |-> rmqCount + 1, body |-> Serialize(ObjHi)])
          /\ UNCHANGED <<rmqChannel, rmqLink, isConnected, rmqConsuming, rmqUnacked>>
          /\ UNCHANGED <<sqsVars, mockVars>>
       \/ /\ adapter = "mock" /\ messageIdCounter < MaxMsgs
          /\ MockPublish(ObjHi)
          /\ UNCHANGED <<sqsVars, rmqVars>>
    /\ UNCHANGED <<appVars, loopVars, sqsOp, rmqOp, clientVars, first>>

\* A message is accepted by the selected adapter's queue.
Produce == ProduceOn(queueService)

\* ---- SQS: subscribe, lines 290-328
\* The poll function from the point where `rest` of the batch is left to
\* process and hs are the invocations in progress: the callback is awaited on
\* the next message, or, the batch done, the next poll is scheduled if
\* isPolling still holds.
PollNext(rest, hs) ==
    /\ batch' = rest
    /\ IF rest # <<>>
       THEN /\ poll' = "handling"
            /\ handling' = hs \cup {Invocation(SqsKey(rest[1].id), rest[1])}
       ELSE /\ poll' = IF isPolling THEN "timer" ELSE "stopped"
            /\ handling' = hs

\* subscribe on the SQS adapter: isPolling is set and poll() runs up to the
\* ReceiveMessage request it awaits.
SqsSubscribeLoop ==
    /\ queueService = "sqs" /\ poll = "off"
    /\ SqsSubscribe
    /\ poll' = IF sqsClient THEN "receiving" ELSE "off"
    /\ Begin("subscribe", NoBody, 0, <<>>)
    /\ UNCHANGED <<batch, mockTimer, handling, hist, rmqOp, rmqVars, mockVars>>

\* The poll's ReceiveMessage request completes, with a batch or with an error
\* that the outer catch logs.
SqsPollReceived ==
    /\ poll = "receiving"
    /\ \/ \E k \in SqsBatchSizes(PollMaxMessages) :
             /\ sqsVisible' = SubSeq(sqsVisible, k + 1, Len(sqsVisible))
             /\ sqsInFlight' = sqsInFlight \o SubSeq(sqsVisible, 1, k)
             /\ PollNext(MapSqs(SubSeq(sqsVisible, 1, k)), handling)
       \/ /\ UNCHANGED <<sqsVisible, sqsInFlight>>
          /\ PollNext(<<>>, handling)
    /\ UNCHANGED <<sqsClient, sqsDestroyed, isPolling, sqsCount, mockTimer, hist>>
    /\ UNCHANGED <<appVars, rmqVars, mockVars, sqsOp, rmqOp, clientVars, first>>

\* Faulty variant: the loop moves on without deleteMessage after a success too.
SqsHandledNoDelete(h, ok) ==
    /\ poll = "handling"
    /\ h.msg = batch[1]
    /\ Handled(h.k, ok)
    /\ PollNext(Tail(batch), handling \ {h})
    /\ UNCHANGED <<appVars, sqsVars, rmqVars, mockVars, sqsOp, rmqOp, clientVars, first>>
    /\ UNCHANGED mockTimer

\* Faulty variant: a callback that rejects ends the poll chain.
SqsHandledStops(h, ok) ==
    /\ poll = "handling"
    /\ h.msg = batch[1]
    /\ Handled(h.k, ok)
    /\ handling' = handling \ {h}
    /\ poll' = IF ok THEN "deleting" ELSE "stopped"
    /\ batch' = IF ok THEN batch ELSE <<>>
    /\ UNCHANGED <<appVars, sqsVars, rmqVars, mockVars, sqsOp, rmqOp, clientVars, first>>
    /\ UNCHANGED mockTimer

\* The callback settles: fulfilled, and deleteMessage sends its request;
\* rejected, and the inner catch logs and the loop moves to the next message.
SqsHandledAs(h, ok) ==
    /\ poll = "handling"
    /\ h.msg = batch[1]
    /\ Handled(h.k, ok)
    /\ IF ok
       THEN /\ poll' = "deleting"
            /\ handling' = handling \ {h}
            /\ UNCHANGED batch
       ELSE PollNext(Tail(batch), handling \ {h})
    /\ UNCHANGED <<appVars, sqsVars, rmqVars, mockVars, sqsOp, rmqOp, clientVars, first>>
    /\ UNCHANGED mockTimer

SqsHandled == \E h \in handling, ok \in BOOLEAN : SqsHandledAs(h, ok)

\* The poll's DeleteMessage request completes: the message with that receipt
\* handle is gone, or the request failed, which the inner catch logs.
SqsPollDeleted ==
    /\ poll = "deleting"
    /\ \/ /\ sqsInFlight' = SelectSeq(sqsInFlight, LAMBDA x : ReceiptHandle(x.n) # batch[1].id)
          /\ sqsVisible' = SelectSeq(sqsVisible, LAMBDA x : ReceiptHandle(x.n) # batch[1].id)
       \/ UNCHANGED <<sqsVisible, sqsInFlight>>
    /\ PollNext(Tail(batch), handling)
    /\ UNCHANGED <<sqsClient, sqsDestroyed, isPolling, sqsCount, mockTimer, hist>>
    /\ UNCHANGED <<appVars, rmqVars, mockVars, sqsOp, rmqOp, clientVars, first>>

\* `setTimeout(poll, 1000)` fires: poll() returns if isPolling was reset, and
\* sends the next ReceiveMessage request otherwise.
SqsPollTimer ==
    /\ poll = "timer"
    /\ poll' = IF isPolling THEN "receiving" ELSE "stopped"
    /\ UNCHANGED <<batch, mockTimer, handling, hist>>
    /\ UNCHANGED <<appVars, sqsVars, rmqVars, mockVars, sqsOp, rmqOp, clientVars, first>>

\* The visibility timeout of a received message runs out before it is deleted.
SqsVisibilityTimeout ==
    /\ \E i \in 1..Len(sqsInFlight) :
          /\ sqsVisible' = Append(sqsVisible, sqsInFlight[i])
          /\ sqsInFlight' = SelectSeq(sqsInFlight, LAMBDA x : x # sqsInFlight[i])
    /\ UNCHANGED <<sqsClient, sqsDestroyed, isPolling, sqsCount>>
    /\ UNCHANGED <<appVars, loopVars, rmqVars, mockVars, sqsOp, rmqOp, clientVars, first>>

\* close on the SQS adapter: besides what SqsClose does, `clearTimeout`
\* cancels a scheduled poll.
SqsCloseLoop ==
    /\ queueService = "sqs"
    /\ SqsClose
    /\ poll' = IF poll = "timer" THEN "stopped" ELSE poll
    /\ Begin("close", NoBody, 0, <<>>)
    /\ UNCHANGED <<batch, mockTimer, handling, hist, rmqOp, rmqVars, mockVars>>

\* ---- mock: subscribe, lines 34-49
\* Faulty variant: subscribe returns without registering the interval.
MockSubscribeNoTimer ==
    /\ queueService = "mock" /\ ~mockTimer
    /\ Complete("subscribe", NoBody, 0, <<>>, Fulfilled("subscribe", <<>>, <<>>))
    /\ UNCHANGED <<loopVars, sqsOp, sqsVars, rmqOp, rmqVars, mockVars>>

\* subscribe on the mock: the interval is registered and the call returns.
MockSubscribe ==
    /\ queueService = "mock" /\ ~mockTimer
    /\ mockTimer' = TRUE
    /\ Complete("subscribe", NoBody, 0, <<>>, Fulfilled("subscribe", <<>>, <<>>))
    /\ UNCHANGED <<poll, batch, handling, hist, sqsOp, sqsVars, rmqOp, rmqVars, mockVars>>

\* The interval fires on a non-empty list: the first message is shifted off
\* and the callback is awaited on it.  Nothing ever clears the interval.
MockTick ==
    /\ mockTimer /\ messages # <<>>
    /\ messages' = Tail(messages)
    /\ handling' = handling \cup {Invocation(MockKey(messages[1].id), messages[1])}
    /\ UNCHANGED <<messageIdCounter, poll, batch, mockTimer, hist>>
    /\ UNCHANGED <<appVars, sqsVars, rmqVars, sqsOp, rmqOp, clientVars, first>>

\* Faulty variant: a message whose callback rejected is not pushed back.
MockHandledDrops(h, ok) ==
    /\ queueService = "mock"
    /\ Handled(h.k, ok)
    /\ handling' = handling \ {h}
    /\ UNCHANGED <<messages, messageIdCounter, poll, batch, mockTimer>>
    /\ UNCHANGED <<appVars, sqsVars, rmqVars, sqsOp, rmqOp, clientVars, first>>

\* Faulty variant: the message is pushed back whatever the callback did.
MockHandledRequeues(h, ok) ==
    /\ queueService = "mock"
    /\ Handled(h.k, ok)
    /\ handling' = handling \ {h}
    /\ messages' = Append(messages, h.msg)
    /\ UNCHANGED <<messageIdCounter, poll, batch, mockTimer>>
    /\ UNCHANGED <<appVars, sqsVars, rmqVars, sqsOp, rmqOp, clientVars, first>>

\* The callback settles: rejected, and the message is pushed back on the list.
MockHandledAs(h, ok) ==
    /\ queueService = "mock"
    /\ Handled(h.k, ok)
    /\ handling' = handling \ {h}
    /\ messages' = IF ok THEN messages ELSE Append(messages, h.msg)
    /\ UNCHANGED <<messageIdCounter, poll, batch, mockTimer>>
    /\ UNCHANGED <<appVars, sqsVars, rmqVars, sqsOp, rmqOp, clientVars, first>>

MockHandled == \E h \in handling, ok \in BOOLEAN : MockHandledAs(h, ok)

\* close on the mock: the list is emptied; the interval stays registered.
MockCloseLoop ==
    /\ queueService = "mock"
    /\ MockClose
    /\ Complete("close", NoBody, 0, <<>>, Fulfilled("close", <<>>, <<>>))
    /\ UNCHANGED <<loopVars, sqsOp, sqsVars, rmqOp, rmqVars>>

\* ---- RabbitMQ: subscribe, lines 97-126
RmqSubscribeLoop ==
    /\ queueService = "rabbitmq" /\ ~rmqConsuming
    /\ RmqSubscribe
    /\ Begin("subscribe", NoBody, 0, <<>>)
    /\ UNCHANGED <<loopVars, sqsOp, sqsVars, mockVars>>

\* The broker delivers the next ready message to the registered consumer: it
\* is unacknowledged from now on, and the callback is awaited on it.
RmqDeliver ==
    /\ rmqConsuming /\ rmqLink = "up" /\ rmqReady # <<>>
    /\ rmqReady' = Tail(rmqReady)
    /\ rmqUnacked' = Append(rmqUnacked, rmqReady[1])
    /\ handling' = handling \cup {Invocation(rmqReady[1].n, mapRabbitMqMessage(rmqReady[1]))}
    /\ UNCHANGED <<rmqChannel, rmqLink, isConnected, rmqConsuming, rmqCount>>
    /\ UNCHANGED <<poll, batch, mockTimer, hist>>
    /\ UNCHANGED <<appVars, sqsVars, mockVars, sqsOp, rmqOp, clientVars, first>>

\* The callback settles: fulfilled, and channel.ack removes the message;
\* rejected, and channel.nack(msg, false, true) puts it back in the queue.  On
\* a channel that is gone both calls raise, and the broker has requeued the
\* message already.
RmqHandledAs(h, ok) ==
    /\ queueService \in {"rabbitmq", "both"}
    /\ Handled(h.k, ok)
    /\ handling' = handling \ {h}
    /\ rmqUnacked' = IF h.live
                     THEN SelectSeq(rmqUnacked, LAMBDA x : x.n # h.k)
                     ELSE rmqUnacked
    /\ rmqReady' = IF h.live /\ ~ok
                   THEN SelectSeq(rmqUnacked, LAMBDA x : x.n = h.k) \o rmqReady
                   ELSE rmqReady
    /\ UNCHANGED <<rmqChannel, rmqLink, isConnected, rmqConsuming, rmqCount>>
    /\ UNCHANGED <<poll, batch, mockTimer>>
    /\ UNCHANGED <<appVars, sqsVars, mockVars, sqsOp, rmqOp, clientVars, first>>

RmqHandled == \E h \in handling, ok \in BOOLEAN : RmqHandledAs(h, ok)

RmqCloseLoop ==
    /\ queueService = "rabbitmq"
    /\ RmqClose
    /\ Begin("close", NoBody, 0, <<>>)
    /\ UNCHANGED <<loopVars, sqsOp, sqsVars, mockVars>>

\* ---- the subscriber
\* The consumer service calls subscribe with its handler, once.
CallSubscribeLoop ==
    /\ CanCall
    /\ SqsSubscribeLoop \/ MockSubscribe \/ RmqSubscribeLoop
    /\ FirstSettled
    /\ UNCHANGED appVars

\* close, called by the module's shutdown hook or by the owner of the adapter.
CallCloseLoop ==
    /\ CanCall
    /\ SqsCloseLoop \/ MockCloseLoop \/ RmqCloseLoop
    /\ FirstSettled
    /\ UNCHANGED appVars

\* One adapter is selected; the composite's loops are those of its children.
LoopInit == Init /\ queueProvider \in {"sqs", "rabbitmq", "mock"}

LoopNext ==
    \/ Produce
    \/ CallSubscribeLoop
    \/ CallCloseLoop
    \/ DirectReturn
    \/ SqsPollReceived
    \/ SqsHandled
    \/ SqsPollDeleted
    \/ SqsPollTimer
    \/ SqsVisibilityTimeout
    \/ MockTick
    \/ MockHandled
    \/ RmqConnect
    \/ RmqDisconnect
    \/ RmqSubscribeDone
    \/ RmqCloseDone
    \/ RmqDeliver
    \/ RmqHandled

LoopSpec == LoopInit /\ [][LoopNext]_vars

\* ---- the loops under a fair event loop and backends that answer
\* The poll's receive returns message k, the broker hands message k to the
\* consumer, the visibility timeout of message k runs out.
SqsReceives(k) ==
    SqsPollReceived /\ \E i \in 1..Len(batch') : batch'[i].id = ReceiptHandle(k)

RmqDelivers(k) == RmqDeliver /\ rmqReady[1].n = k

SqsTimesOut(k) ==
    SqsVisibilityTimeout /\ \E i \in 1..Len(sqsVisible') : sqsVisible'[i].n = k

\* The event loop runs every timer that is due and every continuation whose
\* promise has settled; handlers and backend requests terminate; a queue
\* that holds a message returns it to a consumer that keeps asking, and the
\* connection manager reconnects.
LoopFairness ==
    /\ WF_vars(SqsPollTimer)
    /\ WF_vars(SqsHandled)
    /\ WF_vars(SqsPollDeleted)
    /\ WF_vars(MockTick)
    /\ WF_vars(RmqConnect)
    /\ \A k \in 1..MaxMsgs :
          /\ WF_vars(SqsTimesOut(k))
          /\ SF_vars(SqsReceives(k))
          /\ SF_vars(RmqDelivers(k))

\* The loops of an adapter that is left open on a connection that stays up
\* once it is up.
FairLoopNext ==
    \/ Produce
    \/ CallSubscribeLoop
    \/ DirectReturn
    \/ SqsPollReceived
    \/ SqsHandled
    \/ SqsPollDeleted
    \/ SqsPollTimer
    \/ SqsVisibilityTimeout
    \/ MockTick
    \/ MockHandled
    \/ RmqConnect
    \/ RmqSubscribeDone
    \/ RmqDeliver
    \/ RmqHandled

FairLoopSpec == LoopInit /\ [][FairLoopNext]_vars /\ LoopFairness

\* ====================================================== the consumer service
\* QueueConsumerService.startConsuming subscribes with a callback that awaits
\* handleMessage; `threw` says whether the processing in handleMessage's try
\* block raised.

\* Faulty variant: the catch block logs the error and does not rethrow it.
handleMessageSwallows(threw) == "fulfilled"

\* handleMessage: how its promise settles.  The catch block logs and rethrows.
handleMessage(threw) == IF threw THEN "rejected" ELSE "fulfilled"

\* `async (message) => { await this.handleMessage(message); }`
ConsumerCallback(threw) == handleMessage(threw)

\* handleMessage completes on the message of invocation h, and the adapter
\* that delivered it sees the callback settle.
ConsumerHandledAs(h, threw) ==
    LET ok == ConsumerCallback(threw) = "fulfilled" IN
    SqsHandledAs(h, ok) \/ MockHandledAs(h, ok) \/ RmqHandledAs(h, ok)

ConsumerHandled == \E h \in handling, threw \in BOOLEAN : ConsumerHandledAs(h, threw)

\* startConsuming: `await this.queueService.subscribe(...)`.
StartConsuming == CallSubscribeLoop

ConsumerNext ==
    \/ Produce
    \/ StartConsuming
    \/ DirectReturn
    \/ SqsPollReceived
    \/ ConsumerHandled
    \/ SqsPollDeleted
    \/ SqsPollTimer
    \/ SqsVisibilityTimeout
    \/ MockTick
    \/ RmqConnect
    \/ RmqSubscribeDone
    \/ RmqDeliver

\* The consumer on an adapter that is left open, under the event loop and the
\* backends of LoopFairness.
FairConsumerSpec == LoopInit /\ [][ConsumerNext]_vars /\ LoopFairness

\* ========================================================== manual polling
\* One adapter used without subscribe: the caller receives and deletes by
\* hand while other producers fill the queue.

\* maxNumberOfMessages as callers pass it: absent, one, and more than the
\* adapter itself ever asks for.
ManualReceiveArgs == 0..MaxN \cup {DefaultMaxMessages + 1}

ManualReceive == ReceiveWith(ManualReceiveArgs)

ManualInit == Init /\ queueProvider \in {"sqs", "rabbitmq", "mock"}

ManualNext ==
    \/ Produce
    \/ ManualReceive
    \/ CallDeleteMessage
    \/ DirectReturn
    \/ SqsReceiveMessage
    \/ SqsDeleteMessageDone
    \/ SqsVisibilityTimeout
    \/ RmqConnect
    \/ RmqDisconnect
    \/ RmqGetLoop

ManualSpec == ManualInit /\ [][ManualNext]_vars

\* Manual polling with backends that answer: requests complete, the
\* visibility timeout of a message in flight runs out, the connection manager
\* reconnects, and a settled call returns to its caller.
ManualFairness ==
    /\ WF_vars(DirectReturn)
    /\ WF_vars(SqsReceiveMessage)
    /\ WF_vars(SqsDeleteMessageDone)
    /\ WF_vars(RmqGetLoop)
    /\ WF_vars(RmqConnect)
    /\ \A k \in 1..MaxMsgs : WF_vars(SqsTimesOut(k))

FairManualSpec == ManualInit /\ [][ManualNext]_vars /\ ManualFairness

\* ============================================================ the controller
\* QueueController serves one request at a time on the adapter the factory
\* selected.  Each `await` of an adapter call is two steps: the call, and the
\* continuation that runs once the call has returned.
Endpoints == {"publish", "receive", "info", "publish-bulk", "clear"}

\* `count` of publish-bulk.
BulkCounts == 1..MaxMsgs

\* The variables a controller step leaves alone when it calls no adapter.
adapterState == <<sqsVars, rmqVars, mockVars, sqsOp, rmqOp, clientVars, first, loopVars>>

\* The response `{ success: true, ... }` at the end of a try block.
Succeeded(h) == [h EXCEPT !.st = "done", !.success = "true"]

\* Faulty variant: no catch block, the error leaves the endpoint.
Uncaught(h, err) == [h EXCEPT !.st = "done", !.fault = TRUE]

\* The catch block of an endpoint: `{ success: false, error: error.message }`.
Caught(h, err) == [h EXCEPT !.st = "done", !.success = "false", !.error = err]

\* A request arrives at an endpoint that calls the adapter.
HttpRequest ==
    /\ queueService \in Providers
    /\ http.st # "running" /\ call.op = "none" /\ ncalls < MaxCalls
    /\ \E e \in Endpoints \ {"info"}, n \in BulkCounts :
          http' = [NoRequest EXCEPT !.endpoint = e, !.st = "running", !.seen = ncalls,
                                    !.count = IF e = "publish-bulk" THEN n ELSE 0]
    /\ UNCHANGED <<envVars, optionVars, pollVars, rmqSetups, adapterState>>

\* getQueueInfo: no await and no try block, the identifier is read and returned.
HttpInfo ==
    /\ queueService \in Providers
    /\ http.st # "running" /\ call.op = "none"
    /\ http' = [NoRequest EXCEPT !.endpoint = "info", !.st = "done", !.seen = ncalls]
    /\ UNCHANGED <<envVars, optionVars, pollVars, rmqSetups, adapterState>>

\* publishMessage and publishBulkMessages: `await this.queueService.publish(
\* { message, metadata, ... }, ...)`.
HttpPublishCall ==
    /\ http.st = "running" /\ http.endpoint \in {"publish", "publish-bulk"}
    /\ ncalls = http.seen
    /\ PublishWith({ObjHi})

\* receiveMessages: `maxNumberOfMessages: receiveDto.maxMessages || 10`;
\* clearAllMessages: `maxNumberOfMessages: 10`, once the batch before is deleted.
HttpReceiveCall ==
    /\ http.st = "running" /\ http.endpoint \in {"receive", "clear"}
    /\ ncalls = http.seen /\ http.todo = <<>>
    /\ ReceiveWith(IF http.endpoint = "clear" THEN {DefaultMaxMessages} ELSE ReceiveArgs)

\* clearAllMessages: `await this.queueService.deleteMessage(msg.id)`.
HttpDeleteCall ==
    /\ http.st = "running" /\ http.endpoint = "clear"
    /\ ncalls = http.seen /\ http.todo # <<>>
    /\ DeleteWith({http.todo[1].id})

\* Faulty variant: the loop of publish-bulk has a catch of its own and goes
\* on to the next message when a publish failed.
BulkStepGoesOn(h, r, n) ==
    LET done == IF r.st = "rejected" THEN h.results
                ELSE Append(h.results, [messageNumber |-> Len(h.results) + 1,
                                        messageId |-> r.id])
        left == IF r.st = "rejected" THEN h.count - 1 ELSE h.count
    IN  IF Len(done) < left
        THEN [h EXCEPT !.results = done, !.count = left, !.seen = n]
        ELSE Succeeded([h EXCEPT !.results = done, !.count = left])

\* publishBulkMessages when its i-th publish has returned with r: a rejection
\* goes to the catch block; otherwise the id is pushed on `results`, and the
\* loop publishes the next message or, after the count-th, the try block
\* ends.
BulkStep(h, r, n) ==
    LET done == Append(h.results, [messageNumber |-> Len(h.results) + 1,
                                   messageId |-> r.id])
    IN  IF r.st = "rejected" THEN Caught(h, r.err)
        ELSE IF Len(done) < h.count
        THEN [h EXCEPT !.results = done, !.seen = n]
        ELSE Succeeded([h EXCEPT !.results = done])

\* The ids of a list of messages.
Ids(msgs) == [i \in 1..Len(msgs) |-> msgs[i].id]

\* Faulty variant: what a receive returned is counted but never deleted.
ClearStepNoDelete(h, r, n) ==
    IF r.st = "rejected" THEN Caught(h, r.err)
    ELSE IF r.msgs = <<>> /\ h.round > 0 THEN Succeeded(h)
    ELSE [h EXCEPT !.round = h.round + 1, !.seen = n,
                   !.totalCleared = h.totalCleared + Len(r.msgs),
                   !.got = h.got \o Ids(r.msgs)]

\* clearAllMessages when the call it awaits has returned with r: a rejection
\* goes to the catch block; after a deleteMessage the loop over the batch
\* moves on; a receive adds its messages to totalCleared and hands them to
\* the delete loop, and the first receive after the first one to return
\* nothing ends the try block.
ClearStep(h, r, n) ==
    IF r.st = "rejected" THEN Caught(h, r.err)
    ELSE IF r.op = "delete"
    THEN [h EXCEPT !.todo = Tail(h.todo), !.deleted = Append(h.deleted, r.arg),
                   !.seen = n]
    ELSE IF r.msgs = <<>> /\ h.round > 0 THEN Succeeded(h)
    ELSE [h EXCEPT !.todo = r.msgs, !.round = h.round + 1, !.seen = n,
                   !.totalCleared = h.totalCleared + Len(r.msgs),
                   !.got = h.got \o Ids(r.msgs)]

\* What an endpoint does when the adapter call it awaits has returned with r:
\* a rejection goes to its catch block; otherwise publish and receive answer,
\* and publish-bulk and clear go round their loops.
EndpointStep(h, r, n) ==
    IF h.endpoint = "publish-bulk" THEN BulkStep(h, r, n)
    ELSE IF h.endpoint = "clear" THEN ClearStep(h, r, n)
    ELSE IF r.st = "rejected" THEN Caught(h, r.err)
    ELSE Succeeded(h)

\* The awaited adapter call has returned to the endpoint.
HttpContinue ==
    /\ http.st = "running" /\ call.op = "none" /\ ncalls > http.seen
    /\ http' = EndpointStep(http, result, ncalls)
    /\ UNCHANGED <<envVars, optionVars, pollVars, rmqSetups, adapterState>>

\* The application has started: the factory selected an adapter.
HttpInit == Init /\ queueProvider \in Providers

HttpNext ==
    \/ HttpRequest
    \/ HttpInfo
    \/ HttpPublishCall
    \/ HttpReceiveCall
    \/ HttpDeleteCall
    \/ HttpContinue
    \/ Produce
    \/ DirectReturn
    \/ CompositePublishReturn
    \/ CompositeReceiveReturn
    \/ CompositeDeleteReturn
    \/ SqsSendMessage
    \/ SqsReceiveMessage
    \/ SqsDeleteMessageDone
    \/ RmqConnect
    \/ RmqDisconnect
    \/ RmqPublishDone
    \/ RmqGetLoop

HttpSpec == HttpInit /\ [][HttpNext]_vars

\* ================================================ composite: subscribe loops
\* CompositeQueueService.subscribe, lines 55-68: each child is subscribed with
\* a wrapper of its own around the caller's callback.  Message numbers are per
\* queue, so hist[k] here is the latest outcome on message k of either queue.
Children == {"sqs", "rabbitmq"}

\* The child whose loop awaits the invocation h: the one whose mapping made
\* the message.
DeliveredBy(h) == IF h.msg.id = ReceiptHandle(h.k) THEN "sqs" ELSE "rabbitmq"

\* The calls of the caller's callback that the wrapper of a child makes when
\* the child's loop invokes it on msg: `await callback(msg)`.
WrapperCalls(child, msg) == <<msg>>

\* Faulty variant: the wrapper catches what the callback throws.
WrapperSwallows(child, ok) == TRUE

\* How the wrapper's promise settles when the callback's has: as the callback's.
WrapperOutcome(child, ok) == ok

\* subscribe on the composite: both children's subscribe run up to their
\* first await, the SQS poll up to its ReceiveMessage request.
CompositeSubscribeLoop ==
    /\ CanCall
    /\ queueService = "both" /\ poll = "off" /\ ~rmqConsuming
    /\ CompositeSubscribe
    /\ poll' = IF sqsClient THEN "receiving" ELSE "off"
    /\ Begin("subscribe", NoBody, 0, <<>>)
    /\ FirstSettled
    /\ UNCHANGED <<appVars, batch, mockTimer, handling, hist, mockVars>>

\* A message is accepted by the queue of one of the children.
CompositeProduce ==
    /\ queueService = "both"
    /\ \E child \in Children : ProduceOn(child)

\* The caller's callback settles on the message of invocation h: the wrapper
\* that called it settles, and the loop of the child that awaits the wrapper
\* goes on.
CompositeHandledAs(h, ok) ==
    /\ queueService = "both"
    /\ \/ /\ DeliveredBy(h) = "sqs"
          /\ SqsHandledAs(h, WrapperOutcome("sqs", ok))
       \/ /\ DeliveredBy(h) = "rabbitmq"
          /\ RmqHandledAs(h, WrapperOutcome("rabbitmq", ok))

CompositeHandled == \E h \in handling, ok \in BOOLEAN : CompositeHandledAs(h, ok)

CompositeLoopInit == Init /\ queueProvider = "both"

CompositeLoopNext ==
    \/ CompositeProduce
    \/ CompositeSubscribeLoop
    \/ CompositeSubscribeReturn
    \/ SqsPollReceived
    \/ CompositeHandled
    \/ SqsPollDeleted
    \/ SqsPollTimer
    \/ SqsVisibilityTimeout
    \/ RmqConnect
    \/ RmqDisconnect
    \/ RmqSubscribeDone
    \/ RmqDeliver

CompositeLoopSpec == CompositeLoopInit /\ [][CompositeLoopNext]_vars

\* ==================================================== publish with options
\* ---- messageAttributes
\* attributes[k] of a received message: undefined where the key is absent.
AttrGet(attrs, k) == IF k \in DOMAIN attrs THEN attrs[k] ELSE Undefined

\* `{ ...a, ...b }`
Spread(a, b) ==
    [k \in DOMAIN a \cup DOMAIN b |-> IF k \in DOMAIN b THEN b[k] ELSE a[k]]

\* SqsQueueService.formatMessageAttributes: every value becomes a String
\* attribute holding the string itself or the JSON text of the value.
formatMessageAttributes(attrs) ==
    [k \in DOMAIN attrs |-> [DataType |-> "String", StringValue |-> Serialize(attrs[k])]]

\* `attributes` of mapSqsMessage for message n: the message id, the system
\* attributes and the message attributes as the SDK returns them.
SqsAttributes(n) ==
    Spread(Spread([messageId |-> Str(SqsMessageId(n)[1])],
                  [SentTimestamp |-> Str("sent")]),
           formatMessageAttributes(publishOptions[n].messageAttributes))

\* `attributes` of mapRabbitMqMessage for message n: the properties the
\* message was published with, the attributes as its headers among them, and
\* the delivery fields.
RmqAttributes(n) ==
    Spread([messageId |-> Str(generateMessageId(n)[1]),
            headers |-> IF publishOptions[n].messageAttributes = NoAttributes
                        THEN Undefined
                        ELSE publishOptions[n].messageAttributes],
           [routingKey |-> Str("test-routing-key")])

\* `attributes: options?.messageAttributes` of MockQueueService.publish.
MockAttributes(n) == publishOptions[n].messageAttributes

\* The number of the message an id returned by receiveMessages belongs to,
\* and the attributes the selected adapter returns with it.
ReceivedKey(id) ==
    IF queueService = "sqs" THEN SqsKey(id)
    ELSE IF queueService = "mock" THEN MockKey(id)
    ELSE CHOOSE k \in 1..rmqCount : generateMessageId(k) = id

ReceivedAttributes(n) ==
    IF queueService = "sqs" THEN SqsAttributes(n)
    ELSE IF queueService = "mock" THEN MockAttributes(n)
    ELSE RmqAttributes(n)

\* ---- delaySeconds
\* Messages the selected adapter's publish has numbered so far.
PublishedCount ==
    IF queueService = "rabbitmq" THEN rmqCount
    ELSE IF queueService = "mock" THEN messageIdCounter
    ELSE sqsCount

\* A second passes: the delay of every published message runs, and the SQS
\* queue makes the messages whose delay has run out available to receives.
SecondPasses ==
    /\ \E n \in 1..PublishedCount : delayLeft[n] > 0
    /\ LET left == [n \in 1..MaxMsgs |->
                       IF n <= PublishedCount /\ delayLeft[n] > 0
                       THEN delayLeft[n] - 1 ELSE delayLeft[n]]
       IN /\ delayLeft' = left
          /\ sqsVisible' = sqsVisible \o SelectSeq(sqsDelayed, LAMBDA x : left[x.n] = 0)
          /\ sqsDelayed' = SelectSeq(sqsDelayed, LAMBDA x : left[x.n] > 0)
    /\ UNCHANGED <<sqsClient, sqsDestroyed, isPolling, sqsInFlight, sqsCount>>
    /\ UNCHANGED <<envVars, http, publishOptions, pollVars, rmqSetups>>
    /\ UNCHANGED <<rmqVars, mockVars, sqsOp, rmqOp, clientVars, first, loopVars>>

\* One adapter is selected and the callers pass options to publish.
OptionsInit == Started(PublishOptionsSet) /\ queueProvider \in {"sqs", "rabbitmq", "mock"}

OptionsPublish == PublishWith({ObjHi})

OptionsNext ==
    \/ OptionsPublish
    \/ ManualReceive
    \/ StartConsuming
    \/ DirectReturn
    \/ SecondPasses
    \/ SqsSendMessage
    \/ SqsReceiveMessage
    \/ SqsPollReceived
    \/ SqsHandled
    \/ SqsPollDeleted
    \/ SqsPollTimer
    \/ MockTick
    \/ MockHandled
    \/ RmqConnect
    \/ RmqPublishDone
    \/ RmqGetLoop
    \/ RmqSubscribeDone
    \/ RmqDeliver
    \/ RmqHandled

OptionsSpec == OptionsInit /\ [][OptionsNext]_vars

\* ======================================================== the mock adapter
\* MockQueueService under every interleaving of its callers: none of its
\* methods awaits, so each call is one step, and the interval's function is
\* two, the shift and what follows the callback.
MockInit == Init /\ queueProvider = "mock"

MockNext ==
    \/ Produce
    \/ CallPublish
    \/ CallReceiveMessages
    \/ CallDeleteMessage
    \/ CallSubscribeLoop
    \/ CallCloseLoop
    \/ MockTick
    \/ MockHandled

MockSpec == MockInit /\ [][MockNext]_vars

\* ================================================= SQS: several poll chains
\* SqsQueueService.subscribe and close called in any order, lines 290-328 and
\* 376-386.  Every subscribe makes a poll closure of its own and runs it:
\* polls[c] is the chain of the c-th such call, with the place it stands at
\* and what is left of its batch.  pollingInterval is the chain whose
\* setTimeout handle was stored last, 0 for null.
Poll(at, rest) == [at |-> at, batch |-> rest]

\* The poll function with `rest` of its batch left: the callback is awaited on
\* the next message, or, the batch done, `setTimeout(poll, 1000)` when
\* isPolling holds, and the chain ends otherwise.
PollAfter(rest) ==
    IF rest # <<>> THEN Poll("handling", rest)
    ELSE IF isPolling THEN Poll("timer", <<>>)
    ELSE Poll("ended", <<>>)

\* The chains that have not ended.
ActivePolls == {c \in DOMAIN polls : polls[c].at # "ended"}

\* Chain c goes on with `rest`; a timer it sets is the one stored from now on.
PollGoesOn(c, rest) ==
    /\ polls' = [polls EXCEPT ![c] = PollAfter(rest)]
    /\ pollingInterval' = IF PollAfter(rest).at = "timer" THEN c ELSE pollingInterval

\* subscribe: without a client it throws; otherwise isPolling is set and a
\* new poll() runs up to the ReceiveMessage request it awaits.
PollsSubscribe ==
    /\ CanCall /\ queueService = "sqs"
    /\ SqsSubscribe
    /\ polls' = IF sqsClient THEN Append(polls, Poll("receiving", <<>>)) ELSE polls
    /\ Begin("subscribe", NoBody, 0, <<>>)
    /\ FirstSettled
    /\ UNCHANGED <<envVars, http, optionVars, rmqSetups, pollingInterval, loopVars>>
    /\ UNCHANGED <<rmqOp, rmqVars, mockVars>>

\* close: isPolling is reset, `clearTimeout(this.pollingInterval)` cancels the
\* timer whose handle is stored, if it has not fired, and the handle is
\* dropped; then the client is destroyed.
PollsClose ==
    /\ CanCall /\ queueService = "sqs"
    /\ SqsClose
    /\ polls' = [c \in DOMAIN polls |->
                    IF c = pollingInterval /\ polls[c].at = "timer"
                    THEN Poll("ended", <<>>) ELSE polls[c]]
    /\ pollingInterval' = 0
    /\ Begin("close", NoBody, 0, <<>>)
    /\ FirstSettled
    /\ UNCHANGED <<envVars, http, optionVars, rmqSetups, loopVars, rmqOp, rmqVars, mockVars>>

\* The ReceiveMessage request of chain c completes, with a batch or with an
\* error that the outer catch logs.
PollsReceived ==
    \E c \in DOMAIN polls :
        /\ polls[c].at = "receiving"
        /\ \/ \E k \in SqsBatchSizes(PollMaxMessages) :
                 /\ sqsVisible' = SubSeq(sqsVisible, k + 1, Len(sqsVisible))
                 /\ sqsInFlight' = sqsInFlight \o SubSeq(sqsVisible, 1, k)
                 /\ PollGoesOn(c, MapSqs(SubSeq(sqsVisible, 1, k)))
           \/ /\ UNCHANGED <<sqsVisible, sqsInFlight>>
              /\ PollGoesOn(c, <<>>)
        /\ UNCHANGED <<sqsClient, sqsDestroyed, isPolling, sqsCount>>
        /\ UNCHANGED <<envVars, http, optionVars, rmqSetups, loopVars>>
        /\ UNCHANGED <<rmqVars, mockVars, sqsOp, rmqOp, clientVars, first>>

\* The callback chain c awaits settles: fulfilled, and deleteMessage sends its
\* request; rejected, and the inner catch logs and the loop moves on.
PollsHandled ==
    \E c \in DOMAIN polls, ok \in BOOLEAN :
        /\ polls[c].at = "handling"
        /\ IF ok
           THEN /\ polls' = [polls EXCEPT ![c].at = "deleting"]
                /\ UNCHANGED pollingInterval
           ELSE PollGoesOn(c, Tail(polls[c].batch))
        /\ UNCHANGED <<envVars, http, optionVars, rmqSetups, loopVars>>
        /\ UNCHANGED <<sqsVars, rmqVars, mockVars, sqsOp, rmqOp, clientVars, first>>

\* The DeleteMessage request of chain c completes: the message is gone, or the
\* request failed, which the inner catch logs.
PollsDeleted ==
    \E c \in DOMAIN polls :
        /\ polls[c].at = "deleting"
        /\ \/ /\ sqsInFlight' = SelectSeq(sqsInFlight,
                     LAMBDA x : ReceiptHandle(x.n) # polls[c].batch[1].id)
              /\ sqsVisible' = SelectSeq(sqsVisible,
                     LAMBDA x : ReceiptHandle(x.n) # polls[c].batch[1].id)
           \/ UNCHANGED <<sqsVisible, sqsInFlight>>
        /\ PollGoesOn(c, Tail(polls[c].batch))
        /\ UNCHANGED <<sqsClient, sqsDestroyed, isPolling, sqsCount>>
        /\ UNCHANGED <<envVars, http, optionVars, rmqSetups, loopVars>>
        /\ UNCHANGED <<rmqVars, mockVars, sqsOp, rmqOp, clientVars, first>>

\* The timer of chain c fires: poll() returns if isPolling is reset, and sends
\* the next ReceiveMessage request otherwise.
PollsTimer ==
    \E c \in DOMAIN polls :
        /\ polls[c].at = "timer"
        /\ polls' = [polls EXCEPT ![c] =
                        IF isPolling THEN Poll("receiving", <<>>) ELSE Poll("ended", <<>>)]
        /\ UNCHANGED <<envVars, http, optionVars, rmqSetups, pollingInterval, loopVars>>
        /\ UNCHANGED <<sqsVars, rmqVars, mockVars, sqsOp, rmqOp, clientVars, first>>

PollsInit == Init /\ queueProvider = "sqs"

PollsNext ==
    \/ Produce
    \/ PollsSubscribe
    \/ PollsClose
    \/ DirectReturn
    \/ PollsReceived
    \/ PollsHandled
    \/ PollsDeleted
    \/ PollsTimer
    \/ SqsVisibilityTimeout

PollsSpec == PollsInit /\ [][PollsNext]_vars

\* ============================================ RabbitMQ: setups and reconnects
\* RabbitMqQueueService.receiveMessages, lines 128-151, hands its fetch loop to
\* the channel wrapper with addSetup.  The wrapper keeps every setup function
\* it was given and runs them all whenever the channel connects; a setup
\* added while the channel is up runs at once as well.  rmqSetups[i] is the
\* setup of the i-th receiveMessages call that got past the isConnected test:
\* the maxMessages of its loop and the number of times it ran again after
\* the run that answered its caller.
FetchSetup(max) == [max |-> max, reruns |-> 0]

\* The setups that have answered their caller: all but that of a call whose
\* first run is still to come.
AnsweredSetups ==
    IF rmqOp.st = "pending" /\ rmqOp.op = "receive"
    THEN 1..(Len(rmqSetups) - 1)
    ELSE 1..Len(rmqSetups)

RECURSIVE FetchedBy(_, _)
\* The number of messages the setups in `todo` get, one after the other, from
\* a queue holding `ready` messages: each loop stops at its maxMessages or at
\* the first empty get.
FetchedBy(todo, ready) ==
    IF todo = {} THEN 0
    ELSE LET i == CHOOSE x \in todo : \A y \in todo : x <= y
             k == Min(rmqSetups[i].max, ready)
         IN  k + FetchedBy(todo \ {i}, ready - k)

\* receiveMessages on the RabbitMQ adapter: not connected, it throws;
\* otherwise its fetch loop is added to the wrapper's setups.
SetupsReceive ==
    /\ CanCall /\ queueService = "rabbitmq"
    /\ \E n \in ReceiveArgs :
          /\ RmqReceiveMessages(n)
          /\ Begin("receive", NoBody, n, <<>>)
          /\ rmqSetups' = IF isConnected
                          THEN Append(rmqSetups, FetchSetup(EffectiveMax(n)))
                          ELSE rmqSetups
    /\ UNCHANGED <<sqsOp, sqsVars, mockVars>>
    /\ FirstSettled
    /\ UNCHANGED <<envVars, http, optionVars, pollVars, loopVars>>

\* The channel connects: the 'connect' handler sets isConnected, and the
\* wrapper runs its setups.  Those that have answered their caller fetch
\* again, into an array nobody reads, and the messages they got stay
\* unacknowledged on the channel; that of a call still waiting runs as
\* RmqGetLoop.
SetupsConnect ==
    /\ rmqChannel /\ rmqLink = "down"
    /\ rmqLink' = "up"
    /\ isConnected' = TRUE
    /\ LET todo == AnsweredSetups
           k == FetchedBy(todo, Len(rmqReady))
       IN  /\ rmqReady' = SubSeq(rmqReady, k + 1, Len(rmqReady))
           /\ rmqUnacked' = rmqUnacked \o SubSeq(rmqReady, 1, k)
           /\ rmqSetups' = [i \in DOMAIN rmqSetups |->
                               IF i \in todo
                               THEN [rmqSetups[i] EXCEPT !.reruns = 1]
                               ELSE rmqSetups[i]]
    /\ UNCHANGED <<rmqChannel, rmqConsuming, rmqCount>>
    /\ UNCHANGED <<envVars, http, optionVars, pollVars, loopVars>>
    /\ UNCHANGED <<sqsVars, mockVars, sqsOp, rmqOp, clientVars, first>>

SetupsInit == Init /\ queueProvider = "rabbitmq"

SetupsNext ==
    \/ Produce
    \/ SetupsReceive
    \/ RmqGetLoop
    \/ DirectReturn
    \/ SetupsConnect
    \/ RmqDisconnect

SetupsSpec == SetupsInit /\ [][SetupsNext]_vars

\* ================================================ the publish-bulk endpoint
\* QueueController.publishBulkMessages, lines 139-193, on its own and with
\* the messages it publishes told apart.
\* A request to publish `count` messages arrives.
BulkRequest ==
    /\ queueService \in Providers
    /\ http.st # "running" /\ call.op = "none" /\ ncalls < MaxCalls
    /\ \E n \in BulkCounts :
          http' = [NoRequest EXCEPT !.endpoint = "publish-bulk", !.st = "running",
                                    !.seen = ncalls, !.count = n]
    /\ UNCHANGED <<envVars, optionVars, pollVars, rmqSetups, adapterState>>

\* `await this.queueService.publish({ message: `Test message #${i}`, ... })`,
\* where i - 1 publishes have pushed their id on `results`.
BulkPublishCall ==
    /\ http.st = "running" /\ http.endpoint = "publish-bulk"
    /\ ncalls = http.seen
    /\ PublishWith({TestMessage(Len(http.results) + 1)})

BulkNext ==
    \/ BulkRequest
    \/ BulkPublishCall
    \/ HttpContinue
    \/ Produce
    \/ DirectReturn
    \/ CompositePublishReturn
    \/ SqsSendMessage
    \/ RmqConnect
    \/ RmqDisconnect
    \/ RmqPublishDone

BulkSpec == HttpInit /\ [][BulkNext]_vars

\* ======================================================= the clear endpoint
\* QueueController.clearAllMessages, lines 195-246, on its own: requests to
\* clear arrive one after the other, messages are published and the RabbitMQ
\* connection changes only between them, and the backends do not fail.
\* The messages a clear request finds waiting in the selected adapter's queue.
Backlog ==
    CASE queueService = "mock" -> Len(messages)
      [] queueService = "sqs" -> Len(sqsVisible)
      [] queueService = "rabbitmq" -> Len(rmqReady)
      [] OTHER -> Len(sqsVisible) + Len(rmqReady)

\* The adapter calls a clear request makes at most: a receive and a delete
\* per message where a receive may return fewer messages than wait (SQS), a
\* delete per message otherwise, and the receives that return nothing.
ClearCalls ==
    IF queueService \in {"sqs", "both"} /\ Backlog > 0
    THEN 2 * Backlog + 1
    ELSE Backlog + 2

\* A request to clear arrives; the bound on calls leaves room for it.
ClearRequest ==
    /\ queueService \in Providers
    /\ http.st # "running" /\ call.op = "none"
    /\ ncalls + ClearCalls <= MaxCalls
    /\ http' = [NoRequest EXCEPT !.endpoint = "clear", !.st = "running", !.seen = ncalls]
    /\ UNCHANGED <<envVars, optionVars, pollVars, rmqSetups, adapterState>>

\* Between requests: a message is published, the connection comes or goes.
QuietProduce == http.st # "running" /\ (Produce \/ CompositeProduce)
QuietConnect == http.st # "running" /\ RmqConnect
QuietDisconnect == http.st # "running" /\ RmqDisconnect

\* The adapter does not fail: the backends answer the requests the adapter
\* sent them, and no request is lost to a failure of the transport or of the
\* channel.  (SQS still refuses a receipt handle it does not know, which the
\* composite's deleteMessage passes over.)
ClearSqsReceived == SqsReceiveMessage /\ sqsOp'.err # ErrSqsSend
ClearSqsDeleted == SqsDeleteMessageDone /\ sqsOp'.err # ErrSqsSend
ClearRmqGot == RmqGetLoop /\ rmqOp'.err # ErrRmqChannel

ClearNext ==
    \/ ClearRequest
    \/ HttpReceiveCall
    \/ HttpDeleteCall
    \/ HttpContinue
    \/ QuietProduce
    \/ QuietConnect
    \/ QuietDisconnect
    \/ DirectReturn
    \/ CompositeReceiveReturn
    \/ CompositeDeleteReturn
    \/ ClearSqsReceived
    \/ ClearSqsDeleted
    \/ ClearRmqGot

\* The endpoint goes on when the call it awaits has settled, and the backends
\* answer the requests sent to them.
ClearFairness ==
    /\ WF_vars(HttpReceiveCall)
    /\ WF_vars(HttpDeleteCall)
    /\ WF_vars(HttpContinue)
    /\ WF_vars(DirectReturn)
    /\ WF_vars(CompositeReceiveReturn)
    /\ WF_vars(CompositeDeleteReturn)
    /\ WF_vars(ClearSqsReceived)
    /\ WF_vars(ClearSqsDeleted)
    /\ WF_vars(ClearRmqGot)

FairClearSpec == HttpInit /\ [][ClearNext]_vars /\ ClearFairness

\* ================================================================= claims
\* The composite call `op` has returned and no later call has started: sqsOp
\* and rmqOp are the promises of its two child calls.
Returned(op) == provider = "both" /\ call.op = "none" /\ result.op = op

\* The message a fulfilled child publish returned the id of is in that child's queue.
InSqsQueue(id, text) ==
    \E i \in 1..Len(sqsVisible \o sqsInFlight) :
        /\ SqsMessageId((sqsVisible \o sqsInFlight)[i].n) = id
        /\ (sqsVisible \o sqsInFlight)[i].body = text

InRmqQueue(id, text) ==
    \E i \in 1..Len(rmqReady \o rmqUnacked) :
        /\ generateMessageId((rmqReady \o rmqUnacked)[i].n) = id
        /\ (rmqReady \o rmqUnacked)[i].body = text

\* What a child contributed to a receive: its list, or nothing if it failed.
Contribution(p) == IF p.st = "fulfilled" THEN p.msgs ELSE <<>>

\* C1: a composite publish fails if and only if both the SQS child publish and
\* the RabbitMQ child publish failed; in every other case it succeeds.
C1_PublishFailsIffBothFail ==
    Returned("publish") =>
        /\ result.st \in {"fulfilled", "rejected"}
        /\ (result.st = "rejected") <=> (sqsOp.st = "rejected" /\ rmqOp.st = "rejected")

C1_Witness ==
    /\ Returned("publish") /\ result.st = "rejected"
    /\ sqsOp.err = ErrSqsSend /\ rmqOp.err = ErrRmqChannel

\* C2: the id of a successful composite publish is made of the child ids only:
\* the SQS id, a comma, the RabbitMQ id when both succeeded (exactly two
\* components); exactly the surviving child's id, with no separator, when one failed.
C2_CompositeId ==
    (Returned("publish") /\ result.st = "fulfilled") =>
        /\ (sqsOp.st = "fulfilled" /\ rmqOp.st = "fulfilled") =>
               /\ Len(Split(result.id, ",")) = 2
               /\ Split(result.id, ",") = <<sqsOp.id, rmqOp.id>>
        /\ (sqsOp.st = "fulfilled" /\ rmqOp.st = "rejected") =>
               result.id = sqsOp.id /\ Len(Split(result.id, ",")) = 1
        /\ (sqsOp.st = "rejected" /\ rmqOp.st = "fulfilled") =>
               result.id = rmqOp.id /\ Len(Split(result.id, ",")) = 1

C2_Witness ==
    /\ Returned("publish") /\ result.st = "fulfilled"
    /\ sqsOp.st = "fulfilled" /\ rmqOp.st = "fulfilled"
    /\ result.id = <<"sqs-1", ",", "rmq-1">>

\* C3: a composite publish calls publish on both children whatever the other
\* child's outcome, and a message one child accepted is in that child's queue
\* when the call returns, also when the other child failed.
C3_BothChildrenPublish ==
    provider = "both" =>
        /\ call.op = "publish" =>
               /\ sqsOp.op = "publish" /\ sqsOp.st # "idle"
               /\ rmqOp.op = "publish" /\ rmqOp.st # "idle"
        /\ Returned("publish") =>
               /\ sqsOp.op = "publish" /\ Settled(sqsOp)
               /\ rmqOp.op = "publish" /\ Settled(rmqOp)
               /\ sqsOp.st = "fulfilled" => InSqsQueue(sqsOp.id, Serialize(result.body))
               /\ rmqOp.st = "fulfilled" => InRmqQueue(rmqOp.id, Serialize(result.body))

C3_Witness ==
    /\ Returned("publish")
    /\ sqsOp.st = "rejected" /\ rmqOp.st = "fulfilled"
    /\ InRmqQueue(rmqOp.id, Serialize(result.body))
    /\ sqsVisible = <<>>

\* C4: a composite receiveMessages never fails: a child that failed contributes
\* nothing, every message of a child that succeeded is returned, and the
\* result is as long as the lists of the children that succeeded together.
C4_ReceiveNeverFails ==
    Returned("receive") =>
        /\ result.st = "fulfilled"
        /\ Len(result.msgs) = Len(Contribution(sqsOp)) + Len(Contribution(rmqOp))
        /\ \A p \in {sqsOp, rmqOp} :
               \A i \in 1..Len(Contribution(p)) :
                   \E j \in 1..Len(result.msgs) : result.msgs[j] = Contribution(p)[i]

C4_Witness ==
    /\ Returned("receive") /\ result.st = "fulfilled"
    /\ sqsOp.st = "rejected" /\ sqsOp.err = ErrSqsSend
    /\ rmqOp.st = "fulfilled" /\ Len(rmqOp.msgs) = 2
    /\ result.msgs = rmqOp.msgs

\* C5: the list a composite receiveMessages returns is the SQS child's messages
\* followed by the RabbitMQ child's, each in the order the child returned
\* them, whichever child answered first.
C5_ReceiveOrder ==
    (Returned("receive") /\ result.st = "fulfilled") =>
        result.msgs = Contribution(sqsOp) \o Contribution(rmqOp)

C5_Witness ==
    /\ Returned("receive") /\ first = "rmq"
    /\ sqsOp.st = "fulfilled" /\ Len(sqsOp.msgs) >= 1
    /\ rmqOp.st = "fulfilled" /\ Len(rmqOp.msgs) >= 1
    /\ result.msgs = sqsOp.msgs \o rmqOp.msgs

\* C6: on every adapter, concrete or composite, receiveMessages called with
\* maxNumberOfMessages = n, n >= 1, returns at most n messages.
C6_AtMostMax ==
    (call.op = "none" /\ result.op = "receive" /\ result.st = "fulfilled"
        /\ result.max >= 1) =>
        Len(result.msgs) <= result.max

\* The scenario of C7: provider 'both', the first call is a publish that both
\* backends accepted (a two-part id), the next call is a receiveMessages with
\* a maximum of 10 that both backends answered.
C7_Scenario ==
    /\ Returned("receive") /\ ncalls = 2
    /\ EffectiveMax(result.max) = 10
    /\ sqsOp.st = "fulfilled" /\ rmqOp.st = "fulfilled"
    /\ prev.op = "publish" /\ prev.st = "fulfilled"
    /\ Len(Split(prev.id, ",")) = 2

\* C7 as stated: in that scenario the receive returns exactly one message,
\* whose body equals the published message.
C7_ExactlyOneMessage ==
    C7_Scenario =>
        /\ Len(result.msgs) = 1
        /\ \A i \in 1..Len(result.msgs) : result.msgs[i].body = prev.body

\* C7 amended: in that scenario the receive returns exactly two messages, the
\* SQS copy and then the RabbitMQ copy, and when the published message is a
\* JSON object the body of each equals it.
C7_OneMessagePerBackend ==
    C7_Scenario =>
        /\ Len(result.msgs) = 2
        /\ result.msgs[1].id = ReceiptHandle(1)
        /\ result.msgs[2].id = generateMessageId(1)
        /\ prev.body.t = "obj" =>
               \A i \in 1..Len(result.msgs) : result.msgs[i].body = prev.body

C7_Witness ==
    /\ C7_Scenario
    /\ prev.body = ObjHi
    /\ Len(result.msgs) = 2
    /\ result.msgs[1].body = ObjHi /\ result.msgs[2].body = ObjHi

\* C8: a composite deleteMessage calls deleteMessage on both children for any
\* id and returns without raising, whether or not a child rejected the id.
C8_DeleteNeverRaises ==
    provider = "both" =>
        /\ call.op = "delete" =>
               /\ sqsOp.op = "delete" /\ sqsOp.st # "idle"
               /\ sqsOp.st = "pending" => sqsOp.id = call.id
               /\ rmqOp.op = "delete" /\ rmqOp.st # "idle"
        /\ Returned("delete") => result.st = "fulfilled"

C8_Witness ==
    /\ Returned("delete") /\ result.st = "fulfilled"
    /\ sqsOp.st = "rejected" /\ sqsOp.err = ErrSqsReceiptHandle
    /\ result.arg = <<"rmq-1">>

\* C9: a composite close never fails the caller, whatever the outcome of each
\* child's close, also when a child's close raises.
C9_CloseNeverFails ==
    Returned("close") => result.st = "fulfilled"

\* C10: composite publish, receiveMessages, subscribe and close start the
\* operation on both children before waiting for either, and produce their
\* result only after both child operations have settled.
C10_JoinOnAllChildren ==
    provider = "both" =>
        /\ call.op \in {"publish", "receive", "subscribe", "close"} =>
               /\ sqsOp.op = call.op /\ sqsOp.st # "idle"
               /\ rmqOp.op = call.op /\ rmqOp.st # "idle"
        /\ (call.op = "none" /\ result.op \in {"publish", "receive", "subscribe", "close"}) =>
               Settled(sqsOp) /\ Settled(rmqOp)

\* The adapter the factory selected has been closed: the SQS adapter polls no
\* more and its client is destroyed, the RabbitMQ adapter's channel and
\* connection are closed, the mock's queue is empty.
Closed ==
    /\ provider \in {"sqs", "both"} => (~isPolling /\ (sqsClient => sqsDestroyed))
    /\ provider \in {"rabbitmq", "both"} =>
           /\ rmqChannel => rmqLink = "closed"
           /\ ~isConnected /\ ~rmqConsuming /\ rmqUnacked = <<>>
    /\ provider = "mock" => messages = <<>>

adapterVars == <<sqsVars, rmqVars, mockVars>>

HandlerInvoked == \E h \in handling' : h.live /\ h \notin handling
ReceiveIssued == poll' = "receiving" /\ poll # "receiving"
DeleteIssued == poll' = "deleting" /\ poll # "deleting"

\* C12: once a close has returned, the subscribe loop of the adapter is
\* stopped: as long as no other call is made, the handler is invoked on no
\* further message and the loop sends no further receive or delete request.
C12_CloseStopsLoop ==
    [][(call.op = "none" /\ result.op = "close" /\ clientVars' = clientVars) =>
           ~(HandlerInvoked \/ ReceiveIssued \/ DeleteIssued)]_vars

\* Message number k is held by the selected adapter's queue, deliverable now
\* or once its visibility timeout or its unacknowledged delivery ends.
InBackend(k) ==
    \/ provider = "sqs" /\ \E i \in 1..Len(sqsVisible \o sqsInFlight) :
                              (sqsVisible \o sqsInFlight)[i].n = k
    \/ provider = "rabbitmq" /\ \E i \in 1..Len(rmqReady \o rmqUnacked) :
                                   (rmqReady \o rmqUnacked)[i].n = k
    \/ provider = "mock" /\ \E i \in 1..Len(messages) : messages[i].id = MockMessageId(k)

\* The step in which the callback invoked as h settles, fulfilled or rejected.
HandlerSettles(h, ok) == SqsHandledAs(h, ok) \/ MockHandledAs(h, ok) \/ RmqHandledAs(h, ok)

\* C13: in every adapter's subscribe loop, a message whose handler fails is
\* neither acknowledged nor deleted nor dropped.  While the handler runs on a
\* message that SQS or an open RabbitMQ channel delivered, the queue keeps it
\* (in flight, unacknowledged); the step in which the handler fails removes
\* nothing from the queue, and on the mock it puts the message back: after
\* that step the queue holds the message, so that it can be delivered again.
C13_FailedStaysQueued ==
    [][\A h \in handling :
          /\ (h.live /\ provider # "mock") => InBackend(h.k)
          /\ HandlerSettles(h, FALSE) =>
                 ((h.live \/ InBackend(h.k)) => (InBackend(h.k))')]_vars

\* A message whose handler failed is being delivered to the handler again.
C13_Witness ==
    \E h \in handling : h.live /\ hist[h.k] = "failed" /\ provider = "sqs"

\* The handler is invoked on message k in this step.
Delivered(k) == \E h \in handling' : h.k = k /\ h.live /\ h \notin handling

\* The poll's DeleteMessage request for message k is in progress.
DeletePending(k) == poll = "deleting" /\ SqsKey(batch[1].id) = k

\* Message k was handled successfully and has left the queue for good.
Gone(k) ==
    /\ k <= sqsCount + rmqCount + messageIdCounter
    /\ hist[k] = "ok" /\ ~InBackend(k) /\ ~DeletePending(k)
    /\ \A h \in handling : h.k # k

LoopStarted ==
    \/ provider = "sqs" /\ isPolling
    \/ provider = "rabbitmq" /\ rmqConsuming
    \/ provider = "mock" /\ mockTimer

\* close has been called on the adapter (subscribe being called once, one of
\* the last two calls is a close as soon as any call was).
CloseCalled == "close" \in {call.op, result.op, prev.op}

\* Message k waits in the queue: the queue holds it and the loop is not about
\* to delete it.
Waiting(k) == InBackend(k) /\ ~DeletePending(k)

\* C15: a handler failure does not end the subscribe loop: once the handler
\* has failed on some message, every message waiting in the queue of an
\* adapter that is not closed is eventually delivered to the handler.
C15_LoopSurvivesFailure ==
    \A k \in 1..MaxMsgs :
        (LoopStarted /\ ~CloseCalled /\ Waiting(k) /\ \E j \in 1..MaxMsgs : hist[j] = "failed")
            ~> (CloseCalled \/ \E h \in handling : h.k = k /\ h.live)

\* The handler failed on message 1 and is now invoked on message 2, which
\* was waiting in the queue.
C15_Witness ==
    /\ ~CloseCalled /\ hist[1] = "failed" /\ hist[2] = "new"
    /\ \E h \in handling : h.k = 2 /\ h.live
    /\ \A h \in handling : h.k # 1

\* The loop that subscribe started on the selected adapter is running: the
\* SQS poll chain is between a receive and its next timer, the mock's
\* interval is registered, the RabbitMQ consumer setup is registered.
LoopRunning ==
    \/ provider = "sqs" /\ poll \in {"receiving", "handling", "deleting", "timer"}
    \/ provider = "mock" /\ mockTimer
    \/ provider = "rabbitmq" /\ rmqConsuming

\* C16 as stated: subscribe produces its result only once the loop it started
\* has stopped, so that no loop is running when the call has returned.
C16_ReturnsAfterLoop ==
    (call.op = "none" /\ result.op = "subscribe" /\ result.st = "fulfilled") =>
        ~LoopRunning

\* C16 amended: subscribe returns as soon as it has started the loop, without
\* waiting for it to stop: in the step in which a subscribe call returns
\* successfully the loop is running.
C16_ReturnsOnceStarted ==
    [][(result' # result /\ result'.op = "subscribe" /\ result'.st = "fulfilled") =>
           LoopRunning']_vars

\* subscribe has returned on the SQS adapter and the loop it started is
\* awaiting the handler on a message.
C16_Witness ==
    /\ provider = "sqs" /\ call.op = "none"
    /\ result.op = "subscribe" /\ result.st = "fulfilled"
    /\ poll = "handling" /\ handling # {}

\* C17: a composite subscribe succeeds exactly when both children's subscribe
\* succeeded, and then both loops are started: the SQS adapter is polling and
\* the RabbitMQ consumer setup is registered.  It never reports success while
\* a child's subscribe is pending or has failed.
C17_SubscribeIffBoth ==
    Returned("subscribe") =>
        /\ result.st \in {"fulfilled", "rejected"}
        /\ (result.st = "fulfilled") <=> (sqsOp.st = "fulfilled" /\ rmqOp.st = "fulfilled")
        /\ result.st = "fulfilled" =>
               /\ sqsOp.op = "subscribe" /\ rmqOp.op = "subscribe"
               /\ isPolling /\ rmqConsuming

C17_Witness ==
    /\ Returned("subscribe") /\ result.st = "fulfilled"
    /\ sqsOp.st = "fulfilled" /\ rmqOp.st = "fulfilled"
    /\ isPolling /\ rmqConsuming

\* The operations of the common contract that reach the backend.
BackendOps == {"publish", "receive", "subscribe", "delete"}

\* C18: on an SQS or RabbitMQ adapter constructed without its configuration,
\* every publish, receiveMessages, subscribe and deleteMessage fails with the
\* adapter's error for a missing client or connection, and the backend is
\* left untouched.
C18_UnconfiguredFails ==
    /\ (provider = "sqs" /\ ~sqsClient) =>
           /\ (call.op = "none" /\ result.op \in BackendOps) =>
                  (result.st = "rejected" /\ result.err = ErrSqsNotInitialized)
           /\ sqsCount = 0 /\ sqsVisible = <<>> /\ sqsInFlight = <<>>
    /\ (provider = "rabbitmq" /\ ~rmqChannel) =>
           /\ (call.op = "none" /\ result.op \in BackendOps) =>
                  (result.st = "rejected" /\ result.err = ErrRmqNotConnected)
           /\ rmqCount = 0 /\ rmqReady = <<>> /\ rmqUnacked = <<>> /\ rmqLink = "down"

\* C19: on the RabbitMQ adapter a publish, receiveMessages or subscribe started
\* while the connection is down is rejected at once with the not-connected
\* error, and none is left waiting for the connection: no such call is
\* pending while the connection is down, none is pending when it comes back.
C19_FailsWhenDown ==
    [][provider = "rabbitmq" =>
           /\ (call.op = "none" /\ call'.op \in {"publish", "receive", "subscribe"}
                  /\ rmqLink # "up") =>
                  (rmqOp'.st = "rejected" /\ rmqOp'.err = ErrRmqNotConnected)
           /\ (rmqOp.st = "pending" /\ rmqOp.op \in {"publish", "receive", "subscribe"}
                  /\ rmqLink = "down") =>
                  (rmqLink' = "down" /\ rmqOp'.st # "fulfilled")]_vars

\* C20: getQueueIdentifier returns a string on every adapter in every state,
\* unconfigured, disconnected, connected or closed, also after a publish on
\* the same adapter has failed.
C20_IdentifierIsString == getQueueIdentifier.t = "str"

\* ---- C21
\* No call was ever made on an adapter and no backend holds anything.
NothingServed ==
    /\ ncalls = 0 /\ call = NoCall /\ result = NoResult
    /\ sqsOp = Idle /\ rmqOp = Idle
    /\ sqsCount = 0 /\ rmqCount = 0 /\ messageIdCounter = 0
    /\ ~isPolling /\ ~rmqConsuming /\ ~mockTimer

\* Calls reach the selected adapter only.
ServedBy(adapter) ==
    /\ queueService = adapter
    /\ adapter \notin {"sqs", "both"} => (sqsOp = Idle /\ sqsCount = 0)
    /\ adapter \notin {"rabbitmq", "both"} => (rmqOp = Idle /\ rmqCount = 0)
    /\ adapter # "mock" => messageIdCounter = 0

\* C21 as stated: 'sqs', 'rabbitmq' and 'both' select the SQS, the RabbitMQ and
\* the composite adapter, no setting selects the RabbitMQ adapter, and every
\* other name fails the startup, so that nothing is ever served.
C21_ThreeNamesOrFail ==
    /\ queueProvider = "sqs" => ServedBy("sqs")
    /\ queueProvider \in {"rabbitmq", Unset} => ServedBy("rabbitmq")
    /\ queueProvider = "both" => ServedBy("both")
    /\ queueProvider \notin {"sqs", "rabbitmq", "both", Unset} =>
           (queueService = StartupError /\ NothingServed)

\* C21, amended: 'mock' is a provider name too and selects the in-memory
\* adapter; a name other than 'sqs', 'rabbitmq', 'both' and 'mock' fails the
\* startup, and nothing is ever served.
C21_FourNamesOrFail ==
    /\ queueProvider = "sqs" => ServedBy("sqs")
    /\ queueProvider \in {"rabbitmq", Unset} => ServedBy("rabbitmq")
    /\ queueProvider = "both" => ServedBy("both")
    /\ queueProvider = "mock" => ServedBy("mock")
    /\ queueProvider \notin Providers \cup {Unset} =>
           (queueService = StartupError /\ NothingServed)

\* Without a setting, a publish was served by the RabbitMQ adapter.
C21_Witness ==
    /\ queueProvider = Unset
    /\ result.op = "publish" /\ result.st = "fulfilled"
    /\ result.id = generateMessageId(1)

\* ---- C22
\* The request did not reach the backend or its answer was lost.
Unreachable(p) == p.st = "rejected" /\ p.err \in {ErrSqsSend, ErrRmqChannel}

ReturnsEmptyList(p) == p.st = "fulfilled" /\ p.msgs = <<>>

\* C22 as stated: a receiveMessages that the backend serves while the queue
\* holds no available message returns an empty list, whatever
\* maxNumberOfMessages is.
C22_EmptyReceive ==
    [][/\ (/\ queueService = "sqs" /\ sqsVisible = <<>>
           /\ sqsOp.op = "receive" /\ sqsOp.st = "pending" /\ Settled(sqsOp')) =>
              (ReturnsEmptyList(sqsOp') \/ Unreachable(sqsOp'))
       /\ (/\ queueService = "rabbitmq" /\ rmqReady = <<>>
           /\ rmqOp.op = "receive" /\ rmqOp.st = "pending" /\ Settled(rmqOp')) =>
              (ReturnsEmptyList(rmqOp') \/ Unreachable(rmqOp'))
       /\ (/\ queueService = "mock" /\ messages = <<>>
           /\ ncalls' = ncalls + 1 /\ result'.op = "receive") =>
              ReturnsEmptyList(result')]_vars

\* C22, amended: a receiveMessages that the backend serves while the queue
\* holds no available message returns an empty list when maxNumberOfMessages
\* is absent or within the documented range of 1 to 10; on the RabbitMQ and
\* the mock adapter it does so for every value.
C22_EmptyReceiveInRange ==
    [][/\ (/\ queueService = "sqs" /\ sqsVisible = <<>>
           /\ sqsOp.max \in SqsMaxNumberOfMessages
           /\ sqsOp.op = "receive" /\ sqsOp.st = "pending" /\ Settled(sqsOp')) =>
              (ReturnsEmptyList(sqsOp') \/ Unreachable(sqsOp'))
       /\ (/\ queueService = "rabbitmq" /\ rmqReady = <<>>
           /\ rmqOp.op = "receive" /\ rmqOp.st = "pending" /\ Settled(rmqOp')) =>
              (ReturnsEmptyList(rmqOp') \/ Unreachable(rmqOp'))
       /\ (/\ queueService = "mock" /\ messages = <<>>
           /\ ncalls' = ncalls + 1 /\ result'.op = "receive") =>
              ReturnsEmptyList(result')]_vars

\* A receive on an SQS queue that never held a message returned an empty list.
C22_Witness ==
    /\ queueService = "sqs" /\ sqsCount = 0
    /\ result.op = "receive" /\ result.max = 0
    /\ result.st = "fulfilled" /\ result.msgs = <<>>

\* ---- C23
\* The id publish returns for the k-th message of the selected adapter, and
\* the id receiveMessages returns it under.
PublishedId(k) ==
    IF queueService = "sqs" THEN SqsMessageId(k)
    ELSE IF queueService = "rabbitmq" THEN generateMessageId(k)
    ELSE MockMessageId(k)

ReceivedId(k) ==
    IF queueService = "sqs" THEN ReceiptHandle(k) ELSE PublishedId(k)

\* C23: on a single-backend adapter, a message received after it was
\* published has a body equal to the value that was published.
C23_BodyRoundTrip ==
    (/\ queueService \in {"sqs", "rabbitmq", "mock"}
     /\ prev.op = "publish" /\ prev.st = "fulfilled"
     /\ result.op = "receive" /\ result.st = "fulfilled") =>
        \A i \in 1..Len(result.msgs), k \in 1..MaxMsgs :
            (prev.id = PublishedId(k) /\ result.msgs[i].id = ReceivedId(k)) =>
                result.msgs[i].body = prev.body

\* ---- C24
\* The selected adapter's queue has accepted a k-th message.
Accepted(k) ==
    k <= (IF queueService = "sqs" THEN sqsCount
          ELSE IF queueService = "rabbitmq" THEN rmqCount
          ELSE messageIdCounter)

\* The step in which a deleteMessage(id) returns normally to its caller.
DeleteReturns(id) ==
    /\ call.op = "delete" \/ ncalls' = ncalls + 1
    /\ call'.op = "none"
    /\ result'.op = "delete" /\ result'.st = "fulfilled" /\ result'.arg = id

\* C24: when deleteMessage returns for the id under which receiveMessages
\* returned a message, the message is no longer in the backend, and a message
\* that has left the backend does not come back.
C24_DeleteRemoves ==
    [][\A k \in 1..MaxMsgs :
          /\ DeleteReturns(ReceivedId(k)) => (~InBackend(k))'
          /\ (Accepted(k) /\ ~InBackend(k)) => (~InBackend(k))']_vars

\* ---- C25
\* receiveMessages has returned the k-th message to the caller.
ReceivedByCaller(k) ==
    /\ result.op = "receive" /\ result.st = "fulfilled"
    /\ \E i \in 1..Len(result.msgs) : result.msgs[i].id = ReceivedId(k)

\* The caller passes the id of the k-th message to deleteMessage.
DeleteCalled(k) ==
    \/ call.op = "delete" /\ call.id = ReceivedId(k)
    \/ result.op = "delete" /\ result.arg = ReceivedId(k)

\* A receiveMessages on the selected adapter can return the k-th message.
Available(k) ==
    \/ queueService = "sqs" /\ \E i \in 1..Len(sqsVisible) : sqsVisible[i].n = k
    \/ queueService = "rabbitmq" /\ \E i \in 1..Len(rmqReady) : rmqReady[i].n = k
    \/ queueService = "mock" /\ \E i \in 1..Len(messages) : messages[i].id = MockMessageId(k)

\* C25: a message that receiveMessages returned becomes available to
\* receiveMessages again, unless the caller deletes it.
C25_ReceivedNotLost ==
    \A k \in 1..MaxMsgs : ReceivedByCaller(k) ~> (Available(k) \/ DeleteCalled(k))

\* ---- C26
\* C26: when the processing in handleMessage raises, the adapter's callback
\* settles as failed and the message is still in the backend, to be delivered
\* again; and after such a failure every message waiting in the queue is
\* eventually delivered to the consumer.
C26_FailurePassedOn ==
    /\ [][\A h \in handling :
             ConsumerHandledAs(h, TRUE) =>
                 (hist'[h.k] = "failed" /\ (InBackend(h.k))')]_vars
    /\ \A k \in 1..MaxMsgs :
           (LoopStarted /\ Waiting(k) /\ \E j \in 1..MaxMsgs : hist[j] = "failed")
               ~> (\E h \in handling : h.k = k)

\* The consumer failed on message 1, which is back in the queue, and is now
\* handling message 2.
C26_Witness ==
    /\ hist[1] = "failed" /\ InBackend(1)
    /\ \E h \in handling : h.k = 2
    /\ \A h \in handling : h.k # 1

\* ---- C27
\* The request made at least one adapter call, and `result` is the outcome of
\* the last one.
CalledAdapter == ncalls > 0 /\ http.endpoint \in Endpoints \ {"info"}

\* C27: no endpoint lets a failure out as an unhandled fault; an endpoint
\* whose adapter call failed answers success = false with the error's message,
\* and only such an endpoint does.
C27_FailuresAnswered ==
    http.st = "done" =>
        /\ ~http.fault
        /\ CalledAdapter =>
              /\ (result.st = "rejected") = (http.success = "false")
              /\ (result.st = "fulfilled") = (http.success = "true")
              /\ result.st = "rejected" => http.error = result.err

\* The clear endpoint deleted what it had received, then its next receive
\* failed, and it answered with that failure.
C27_Witness ==
    /\ http.endpoint = "clear" /\ http.st = "done"
    /\ prev.op = "delete" /\ result.op = "receive" /\ result.st = "rejected"
    /\ http.success = "false" /\ http.error = result.err

\* ---- C28
\* Message k is in the queue of the child.
HeldBy(child, k) ==
    IF child = "sqs"
    THEN \E i \in 1..Len(sqsVisible \o sqsInFlight) : (sqsVisible \o sqsInFlight)[i].n = k
    ELSE \E i \in 1..Len(rmqReady \o rmqUnacked) : (rmqReady \o rmqUnacked)[i].n = k

\* The child's loop is acknowledging the message of h: the SQS poll is about
\* to send deleteMessage on its receipt handle; RabbitMQ's channel.ack has
\* removed it from the queue.
Acknowledges(child, h) ==
    IF child = "sqs"
    THEN poll' = "deleting" /\ batch'[1] = h.msg
    ELSE ~(HeldBy("rabbitmq", h.k))'

\* The child keeps the message of h for another delivery: SQS holds it, in
\* flight or visible again, and the poll sends no deleteMessage; RabbitMQ has
\* it ready again.
KeepsForRedelivery(child, h) ==
    IF child = "sqs"
    THEN poll' # "deleting" /\ (HeldBy("sqs", h.k))'
    ELSE \E i \in 1..Len(rmqReady') : rmqReady'[i].n = h.k

\* What belongs to the loop of the child.
LoopOf(child) == IF child = "sqs" THEN <<sqsVars, poll, batch>> ELSE <<rmqVars>>

\* Invocation h belongs to a delivery the child can still answer.
Answerable(h) == h.live /\ HeldBy(DeliveredBy(h), h.k)

\* C28: in composite subscribe, the wrapper of either child calls the
\* caller's callback once on each message its child delivers, with the
\* message as delivered; and when the callback settles, the child that
\* delivered the message, and no other, acts on the outcome: it acknowledges
\* the message on success and keeps it for another delivery on failure.
C28_OutcomeToDeliverer ==
    /\ [][\A h \in handling' \ handling :
              h.live => WrapperCalls(DeliveredBy(h), h.msg) = <<h.msg>>]_vars
    /\ [][\A h \in handling, ok \in BOOLEAN :
              CompositeHandledAs(h, ok) =>
                  /\ \A c \in Children \ {DeliveredBy(h)} : UNCHANGED LoopOf(c)
                  /\ (Answerable(h) /\ ok) => Acknowledges(DeliveredBy(h), h)
                  /\ (Answerable(h) /\ ~ok) => KeepsForRedelivery(DeliveredBy(h), h)]_vars

\* The callback runs on a message RabbitMQ delivered while the SQS poll
\* acknowledges a message the callback succeeded on.
C28_Witness ==
    /\ provider = "both" /\ poll = "deleting"
    /\ \E h \in handling : DeliveredBy(h) = "rabbitmq" /\ h.live
    /\ \E k \in 1..MaxMsgs : hist[k] = "failed"

\* ---- C29
\* The messages the caller holds: those the last receiveMessages returned and
\* those the subscribe handler is running on.
HeldMessages ==
    {result.msgs[i] : i \in 1..(IF result.op = "receive" THEN Len(result.msgs) ELSE 0)}
        \cup {h.msg : h \in handling}

\* C29: a message received from the adapter it was published on carries, at
\* every key of the messageAttributes given to publish, the published value.
C29_AttributesCarried ==
    \A m \in HeldMessages :
        LET n == ReceivedKey(m.id)
        IN \A k \in DOMAIN publishOptions[n].messageAttributes :
               AttrGet(ReceivedAttributes(n), k) = publishOptions[n].messageAttributes[k]

\* ---- C30
\* C30: a message published with delaySeconds = d > 0 is not returned by
\* receiveMessages and not delivered to a subscribe handler before d seconds
\* have passed since the publish.
C30_DelayRespected ==
    \A m \in HeldMessages : delayLeft[ReceivedKey(m.id)] = 0

\* ---- C31
\* The ids of the messages in the mock's list, of those the last two
\* receiveMessages calls returned, and of those a handler is running on.
QueuedIds == {messages[i].id : i \in 1..Len(messages)}
ReceivedIds(r) == {r.msgs[i].id : i \in 1..(IF r.op = "receive" THEN Len(r.msgs) ELSE 0)}
HandlingIds == {h.msg.id : h \in handling}

\* C31: on the mock, under every interleaving of publish, receiveMessages,
\* deleteMessage and timer ticks, a message is never twice in the queue, is
\* never with two receivers or two running handlers at once (what a caller or
\* a handler holds is not in the queue, and not with another of them), and
\* the timer hands a message to a handler again only after a handler failed
\* on it.
C31_NoDuplicateDelivery ==
    /\ [](/\ Cardinality(QueuedIds) = Len(messages)
          /\ Cardinality(HandlingIds) = Cardinality(handling)
          /\ QueuedIds \cap (HandlingIds \cup ReceivedIds(result) \cup ReceivedIds(prev)) = {}
          /\ HandlingIds \cap (ReceivedIds(result) \cup ReceivedIds(prev)) = {}
          /\ ReceivedIds(result) \cap ReceivedIds(prev) = {})
    /\ [][\A h \in handling' \ handling : hist[h.k] # "ok"]_vars

\* A handler runs again on a message a handler failed on, while a caller
\* holds another message that receiveMessages returned.
C31_Witness ==
    /\ provider = "mock"
    /\ \E h \in handling : hist[h.k] = "failed"
    /\ result.op = "receive" /\ result.msgs # <<>>

\* ---- C32
\* The step is a call of the mock's receiveMessages, of its publish.
MockReceiveStep == queueService = "mock" /\ ncalls' = ncalls + 1 /\ result'.op = "receive"
MockPublishStep == queueService = "mock" /\ ncalls' = ncalls + 1 /\ result'.op = "publish"

\* receiveMessages returns the `size` oldest messages of the list and leaves
\* the others in their order.
TakesOldest(size) ==
    /\ result'.msgs = SubSeq(messages, 1, size)
    /\ messages' = SubSeq(messages, size + 1, Len(messages))

\* No handler has failed on a message that is still around.
NoHandlerFailure == \A k \in 1..MaxMsgs : hist[k] # "failed"

\* The list is in publish order.
InPublishOrder ==
    \A i, j \in 1..Len(messages) :
        i < j => MockKey(messages[i].id) < MockKey(messages[j].id)

\* publish returns 'mock-msg-k' for a k above every k used before, and no
\* other call moves the counter.
FreshIds ==
    /\ MockPublishStep =>
          /\ messageIdCounter' = messageIdCounter + 1
          /\ result'.id = MockMessageId(messageIdCounter')
    /\ messageIdCounter' >= messageIdCounter

C33_RemovedForGood ==
    /\ []((provider = "mock" /\ result.op = "delete") => result.arg \notin QueuedIds)
    /\ [][(provider = "mock" /\ result.op = "delete") =>
              \A h \in handling' \ handling : h.msg.id # result.arg]_vars
    /\ [][(provider = "mock" /\ result.op = "close" /\ messages = <<>>
              /\ messageIdCounter' = messageIdCounter) => messages' = <<>>]_vars

\* ---- C34
\* The composite's subscribe has reported a failure to its caller.
CompositeSubscribeFailed ==
    queueService = "both" /\ result.op = "subscribe" /\ result.st = "rejected"

\* C34: once the composite's subscribe has failed, no child is consuming: the
\* SQS child polls no more, the RabbitMQ child has no consumer, and the
\* caller's handler is invoked on no further message.
C34_NoChildLeftConsuming ==
    /\ [](CompositeSubscribeFailed =>
              /\ ~isPolling /\ poll \in {"off", "stopped"}
              /\ ~rmqConsuming)
    /\ [][CompositeSubscribeFailed => handling' \subseteq handling]_vars

\* ---- C35
\* close has returned and no subscribe was called since.
SqsClosed == queueService = "sqs" /\ call.op = "none" /\ result.op = "close"

\* C35: on the SQS adapter at most one poll chain is active at any time,
\* whatever the order of the subscribe and close calls; and once close has
\* returned no chain sends a further ReceiveMessage request.
C35_OnePollingChain ==
    /\ [](Cardinality(ActivePolls) <= 1)
    /\ [][SqsClosed => \A c \in DOMAIN polls :
              polls'[c].at = "receiving" => polls[c].at = "receiving"]_vars

\* ---- C36
\* C36: the fetch step of a RabbitMQ receiveMessages call runs once: after
\* the call has returned, no reconnect makes it fetch again, so a reconnect
\* with no call waiting takes no message from the queue.
C36_FetchRunsOnce ==
    /\ [](\A i \in DOMAIN rmqSetups : rmqSetups[i].reruns = 0)
    /\ [][(rmqLink = "down" /\ rmqLink' = "up" /\ rmqOp.st # "pending")
              => rmqReady' = rmqReady]_vars

\* ---- C37
\* The call that returned last was made after a close had returned.
AfterClose == prev.op = "close" /\ result.op \in {"publish", "receive", "subscribe"}

\* C37: an adapter on which close has returned is closed for good: a publish,
\* receiveMessages or subscribe called next fails, a publish on the closed
\* mock enqueues nothing, and on the RabbitMQ adapter isConnected is false
\* once close has returned, however the closing went.
C37_ClosedForGood ==
    /\ [](AfterClose => result.st = "rejected")
    /\ []((queueService = "rabbitmq" /\ result.op = "close") => ~isConnected)
    /\ [][(queueService = "mock" /\ result.op = "close" /\ call.op = "none")
              => messageIdCounter' = messageIdCounter]_vars

\* ---- C39
BulkRequested == http.endpoint = "publish-bulk"

\* The message with this id, returned by a publish, is in the queue of the
\* selected adapter (the composite's ids are joined ids of its children's).
StaysPublished(id) ==
    CASE queueService = "mock" -> id \in QueuedIds
      [] queueService = "sqs" ->
            \E i \in 1..Len(sqsVisible) : SqsMessageId(sqsVisible[i].n) = id
      [] queueService = "rabbitmq" ->
            \E i \in 1..Len(rmqReady) : generateMessageId(rmqReady[i].n) = id
      [] OTHER -> TRUE

\* publish-bulk has answered: with success after `count` publishes, or with
\* success = false when the publish it made last failed.
BulkAnswered ==
    /\ ncalls = http.seen + 1
    /\ IF result.st = "rejected"
       THEN http.success = "false" /\ Len(http.results) < http.count
       ELSE http.success = "true" /\ Len(http.results) = http.count

\* C39: publish-bulk publishes `Test message #1` to `#count` one after the
\* other in that order; when a publish fails it publishes no further
\* message and answers success = false, and the messages published before
\* stay in the queue.
C39_BulkStopsAtFailure ==
    /\ []((BulkRequested /\ http.st = "done") => BulkAnswered)
    /\ [](BulkRequested =>
              \A j \in DOMAIN http.results :
                  /\ http.results[j].messageNumber = j
                  /\ StaysPublished(http.results[j].messageId))
    /\ [][(BulkRequested /\ Len(http'.results) = Len(http.results) + 1) =>
              /\ result.op = "publish"
              /\ result.body = TestMessage(Len(http'.results))
              /\ http'.results[Len(http'.results)].messageId = result.id]_vars
    /\ [][(BulkRequested /\ http'.endpoint = "publish-bulk") =>
              /\ Len(messages') >= Len(messages)
              /\ Len(sqsVisible') >= Len(sqsVisible)
              /\ Len(rmqReady') + Len(rmqUnacked') >= Len(rmqReady) + Len(rmqUnacked)]_vars

\* The second publish of a publish-bulk of two failed: the endpoint answered
\* success = false, and the first message is still published.
C39_Witness ==
    /\ BulkRequested /\ http.st = "done" /\ http.count = 2
    /\ http.success = "false" /\ result.op = "publish" /\ result.st = "rejected"
    /\ Len(http.results) = 1 /\ prev.body = TestMessage(1)
    /\ StaysPublished(http.results[1].messageId)

\* ---- C38
ClearRequested == http.endpoint = "clear"

\* The clear request ended without a failure of the adapter.
Cleared == ClearRequested /\ http.st = "done" /\ http.success = "true"

====
